---- MODULE Spec2Model ----
(***************************************************************************)
(* Model of movie/camera_apply.py (beat timeline compiler, easing          *)
(* evaluator, subtitle track writer, render loop) and of the peak          *)
(* extraction loop of scripts/detect_regions.py.                           *)
(*                                                                         *)
(* Python floats are IEEE-754 binary64 values.  They are modelled bit for  *)
(* bit: a float is a record [s, m, e] denoting s * m * 2^e, with m a       *)
(* 53-bit natural number (kept as a sequence of limbs because TLC's        *)
(* integers are 32 bits wide), and every arithmetic operation rounds its   *)
(* exact result to nearest, ties to even, as the hardware does.            *)
(***************************************************************************)
EXTENDS Integers, Sequences, FiniteSets, TLC

(***************************************************************************)
(* State.  A run of main() walks pc through its steps; the functions of    *)
(* the script are operators, applied by the actions.                       *)
(***************************************************************************)
VARIABLES
  pc,            \* the step the run (or the function under study) is at
  beats,         \* the loaded beat list (1-based here, 0-based in the script)
  total_frames,  \* int(round(duration * fps))
  fps,           \* output frame rate (float)
  duration,      \* total duration in seconds (float)
  zooms, fxs, fys,  \* per-frame camera arrays, indexed 0..total_frames-1
  beat_idx,      \* per-frame beat index array
  opt_srt,       \* the --srt option
  srt,           \* the lines write_srt has put in the subtitle file
  src_total,     \* number of frames the capture can decode
  frame_w, frame_h,  \* frame.shape of the frames the capture decodes
  cap_pos,       \* index of the frame the next cap.read() decodes
  fi,            \* the render loop's frame counter
  reads,         \* source frame index used for each output frame so far
  written,       \* frames handed to writer.write so far
  ease_t, ease_mode, ease_val,  \* one call of ease: arguments and result
  calls,         \* the calls of the two build functions made so far
  crop,          \* one call of apply_transform: arguments and crop rectangle
  bar,           \* one call of draw_subtitle: arguments and bar layout
  opened,        \* cap.isOpened()
  files,         \* the artifacts that exist: "srt", "avi", "out"
  avi_size,      \* os.path.getsize(tmp_avi), -1 before it is taken
  has_audio,     \* the audio probe's answer
  probes,        \* invocations of ffprobe so far
  encodes,       \* invocations of ffmpeg so far
  returncode,    \* result.returncode of the ffmpeg run
  out_size,      \* size of the file at the output path
  status,        \* "running", "done", "error" (sys.exit(1)), "crashed"
  opt_duration,  \* args.duration: the --duration option, 30.0 when omitted
  opt_fps,       \* args.fps: the --fps option, NoFps (None) when omitted
  src_fps,       \* cap.get(CAP_PROP_FPS): the source's frame rate
  result_map,    \* _local_maxima_2d: the correlation map, changed in place
  threshold,     \* _local_maxima_2d: the threshold argument
  min_dist_px,   \* _local_maxima_2d: the suppression radius
  peaks          \* _local_maxima_2d: the (x, y) positions found so far

timelineVars == <<beats, total_frames, fps, duration, zooms, fxs, fys, beat_idx>>
srtVars == <<opt_srt, srt>>
runVars == <<src_total, frame_w, frame_h, cap_pos, fi, reads, written>>
easeVars == <<ease_t, ease_mode, ease_val>>
callVars == <<calls>>
frameVars == <<crop, bar>>
ioVars ==
  <<opened, files, avi_size, has_audio, probes, encodes, returncode, out_size,
    status>>
optVars == <<opt_duration, opt_fps, src_fps>>
peakVars == <<result_map, threshold, min_dist_px, peaks>>
vars == <<pc, timelineVars, srtVars, runVars, easeVars, callVars, frameVars,
          ioVars, optVars, peakVars>>

NoArray == <<>>

Max(a, b) == IF a >= b THEN a ELSE b
Min(a, b) == IF a <= b THEN a ELSE b

\* Call(f, args): the function named f applied to the tuple args.  The
\* functions below reach one another through it; it is defined after them.
RECURSIVE Call(_, _)

(***************************************************************************)
(* Natural numbers of any size: sequences of limbs, least significant      *)
(* first, without leading zero limbs; zero is the empty sequence.          *)
(***************************************************************************)
LimbBits == 7 + 7
Base == 2^LimbBits

RECURSIVE Trim(_)
Trim(a) ==
  IF a = <<>> THEN a
  ELSE IF a[Len(a)] = 0 THEN Trim(SubSeq(a, 1, Len(a) - 1)) ELSE a

RECURSIVE NatOf(_)
NatOf(i) == IF i = 0 THEN <<>> ELSE <<i % Base>> \o NatOf(i \div Base)

RECURSIVE IntOf(_)
IntOf(a) == IF a = <<>> THEN 0 ELSE a[1] + Base * IntOf(Tail(a))

Limb(a, i) == IF i <= Len(a) THEN a[i] ELSE 0

RECURSIVE AddFrom(_, _, _, _)
AddFrom(a, b, i, c) ==
  IF i > Len(a) /\ i > Len(b)
  THEN IF c = 0 THEN <<>> ELSE <<c>>
  ELSE LET s == Limb(a, i) + Limb(b, i) + c
       IN  <<s % Base>> \o AddFrom(a, b, i + 1, s \div Base)

BAdd(a, b) == AddFrom(a, b, 1, 0)

\* a - b for a >= b
RECURSIVE SubFrom(_, _, _, _)
SubFrom(a, b, i, c) ==
  IF i > Len(a) THEN <<>>
  ELSE LET d == a[i] - Limb(b, i) - c
       IN  IF d < 0 THEN <<d + Base>> \o SubFrom(a, b, i + 1, 1)
                    ELSE <<d>> \o SubFrom(a, b, i + 1, 0)

BSub(a, b) == Trim(SubFrom(a, b, 1, 0))

\* -1, 0, 1 as a < b, a = b, a > b
RECURSIVE CmpFrom(_, _, _)
CmpFrom(a, b, i) ==
  IF i = 0 THEN 0
  ELSE IF a[i] < b[i] THEN -1
  ELSE IF a[i] > b[i] THEN 1
  ELSE CmpFrom(a, b, i - 1)

BCmp(a, b) ==
  IF Len(a) < Len(b) THEN -1
  ELSE IF Len(a) > Len(b) THEN 1
  ELSE CmpFrom(a, b, Len(a))

\* a * d for a limb-sized d
RECURSIVE MulLimbFrom(_, _, _, _)
MulLimbFrom(a, d, i, c) ==
  IF i > Len(a)
  THEN IF c = 0 THEN <<>> ELSE <<c>>
  ELSE LET p == a[i] * d + c
       IN  <<p % Base>> \o MulLimbFrom(a, d, i + 1, p \div Base)

MulLimb(a, d) == IF d = 0 THEN <<>> ELSE MulLimbFrom(a, d, 1, 0)

RECURSIVE Zeros(_)
Zeros(k) == IF k = 0 THEN <<>> ELSE <<0>> \o Zeros(k - 1)

RECURSIVE MulFrom(_, _, _)
MulFrom(a, b, i) ==
  IF i > Len(b) THEN <<>>
  ELSE BAdd(IF b[i] = 0 THEN <<>> ELSE Zeros(i - 1) \o MulLimb(a, b[i]),
            MulFrom(a, b, i + 1))

BMul(a, b) == IF a = <<>> \/ b = <<>> THEN <<>> ELSE MulFrom(a, b, 1)

\* a * 2^k
Shl(a, k) ==
  IF a = <<>> THEN a
  ELSE Zeros(k \div LimbBits) \o MulLimb(a, 2^(k % LimbBits))

\* floor(a / 2^k)
RECURSIVE ShrFrom(_, _, _)
ShrFrom(d, r, i) ==
  IF i > Len(d) THEN <<>>
  ELSE <<(d[i] \div 2^r) + (Limb(d, i + 1) % 2^r) * 2^(LimbBits - r)>>
       \o ShrFrom(d, r, i + 1)

Shr(a, k) ==
  LET q == k \div LimbBits
  IN  IF q >= Len(a) THEN <<>>
      ELSE Trim(ShrFrom(SubSeq(a, q + 1, Len(a)), k % LimbBits, 1))

RECURSIVE SmallBitLen(_)
SmallBitLen(x) == IF x = 0 THEN 0 ELSE 1 + SmallBitLen(x \div 2)

BitLen(a) ==
  IF a = <<>> THEN 0 ELSE LimbBits * (Len(a) - 1) + SmallBitLen(a[Len(a)])

IsOdd(a) == a # <<>> /\ a[1] % 2 = 1

\* <<floor(a / b), a mod b>> for b > 0, by binary long division, one limb
\* of the dividend at a time from the most significant one
RECURSIVE DivLimb(_, _, _, _, _)
DivLimb(r, b, d, k, q) ==
  IF k = 0 THEN <<q, r>>
  ELSE LET bit == (d \div 2^(k - 1)) % 2
           r2  == BAdd(Shl(r, 1), IF bit = 1 THEN <<1>> ELSE <<>>)
       IN  IF BCmp(r2, b) >= 0
           THEN DivLimb(BSub(r2, b), b, d, k - 1, 2 * q + 1)
           ELSE DivLimb(r2, b, d, k - 1, 2 * q)

\* q: the quotient limbs found so far; each limb's step is evaluated before
\* the next one starts
RECURSIVE DivFrom(_, _, _, _, _)
DivFrom(a, b, i, q, r) ==
  IF i = 0 THEN <<q, r>>
  ELSE CHOOSE res \in
         { DivFrom(a, b, i - 1, <<st[1]>> \o q, st[2]) :
           st \in {DivLimb(r, b, a[i], LimbBits, 0)} } : TRUE

\* division by a single limb d: <<quotient limbs, remainder>>
RECURSIVE ShortDiv(_, _, _, _)
ShortDiv(a, d, i, r) ==
  IF i = 0 THEN <<<<>>, r>>
  ELSE LET cur  == r * Base + a[i]
           rest == ShortDiv(a, d, i - 1, cur % d)
       IN  <<rest[1] \o <<cur \div d>>, rest[2]>>

\* the number of low limbs of b that are zero
RECURSIVE LowZeros(_, _)
LowZeros(b, i) == IF b[i] # 0 THEN i - 1 ELSE LowZeros(b, i + 1)

BDivMod(a, b) ==
  LET z == LowZeros(b, 1) IN
  IF z = Len(b) - 1
  THEN \* b = d * Base^z: divide the limbs of a above the z lowest by d
       IF Len(a) <= z THEN <<<<>>, a>>
       ELSE LET qr == ShortDiv(SubSeq(a, z + 1, Len(a)), b[Len(b)],
                               Len(a) - z, 0)
            IN  <<Trim(qr[1]),
                  Trim(SubSeq(a, 1, z) \o (IF qr[2] = 0 THEN <<>> ELSE <<qr[2]>>))>>
  ELSE LET qr == DivFrom(a, b, Len(a), <<>>, <<>>) IN <<Trim(qr[1]), qr[2]>>

(***************************************************************************)
(* binary64 floats.  Round gives the float nearest to s * m * 2^e (ties to *)
(* even).  Values stay far inside the exponent range here, so overflow,    *)
(* subnormals, infinities and NaN do not arise.                            *)
(***************************************************************************)
MantBits == 52 + 1

FZero == [s |-> 1, m |-> <<>>, e |-> 0]

Round(s, m, e) ==
  LET L == BitLen(m) IN
  IF L = 0 THEN FZero
  ELSE IF L <= MantBits
  THEN [s |-> s, m |-> Call("Shl", <<m, MantBits - L>>), e |-> e - (MantBits - L)]
  ELSE LET k    == L - MantBits
           q    == Call("Shr", <<m, k>>)
           rem  == Call("BSub", <<m, Call("Shl", <<q, k>>)>>)
           c    == Call("BCmp", <<Call("Shl", <<rem, 1>>), Call("Shl", <<<<1>>, k>>)>>)
           up   == c > 0 \/ (c = 0 /\ IsOdd(q))
           q2   == IF up THEN Call("BAdd", <<q, <<1>>>>) ELSE q
       IN  IF BitLen(q2) > MantBits
           THEN [s |-> s, m |-> Call("Shr", <<q2, 1>>), e |-> e + k + 1]
           ELSE [s |-> s, m |-> q2, e |-> e + k]

\* float(i) for a Python int i
FInt(i) ==
  IF i < 0 THEN Call("Round", <<-1, NatOf(-i), 0>>)
           ELSE Call("Round", <<1, NatOf(i), 0>>)

FNeg(x) == IF x.m = <<>> THEN x ELSE [x EXCEPT !.s = -x.s]

FMul(x, y) ==
  Call("Round", <<x.s * y.s, Call("BMul", <<x.m, y.m>>), x.e + y.e>>)

FAdd(x, y) ==
  IF x.m = <<>> THEN y
  ELSE IF y.m = <<>> THEN x
  ELSE LET e  == Min(x.e, y.e)
           mx == Call("Shl", <<x.m, x.e - e>>)
           my == Call("Shl", <<y.m, y.e - e>>)
       IN  IF x.s = y.s THEN Call("Round", <<x.s, Call("BAdd", <<mx, my>>), e>>)
           ELSE LET c == Call("BCmp", <<mx, my>>)
                IN  IF c = 0 THEN FZero
                    ELSE IF c > 0
                    THEN Call("Round", <<x.s, Call("BSub", <<mx, my>>), e>>)
                    ELSE Call("Round", <<y.s, Call("BSub", <<my, mx>>), e>>)

FSub(x, y) == Call("FAdd", <<x, FNeg(y)>>)

\* x / y for y # 0: the quotient to 56 bits and a sticky bit, then rounded
FDiv(x, y) ==
  IF x.m = <<>> THEN FZero
  ELSE LET qr == Call("BDivMod", <<Call("Shl", <<x.m, MantBits + 2>>), y.m>>)
           st == IF qr[2] = <<>> THEN <<>> ELSE <<1>>
       IN  Call("Round", <<x.s * y.s,
                           Call("BAdd", <<Call("Shl", <<qr[1], 1>>), st>>),
                           x.e - y.e - (MantBits + 3)>>)

\* -1, 0, 1 as x < y, x = y, x > y
FCmp(x, y) ==
  LET d == Call("FAdd", <<x, FNeg(y)>>) IN IF d.m = <<>> THEN 0 ELSE d.s

FLt(x, y) == FCmp(x, y) < 0
FLe(x, y) == FCmp(x, y) <= 0

\* floor(|x|) as an integer, and whether |x| has a fractional part
AbsFloor(x) ==
  IF x.e >= 0 THEN IntOf(Call("Shl", <<x.m, x.e>>))
              ELSE IntOf(Call("Shr", <<x.m, -x.e>>))
HasFrac(x) ==
  x.e < 0 /\ Call("Shl", <<Call("Shr", <<x.m, -x.e>>), -x.e>>) # x.m

\* Python int(x): truncation toward zero
FTrunc(x) == x.s * AbsFloor(x)

\* math.floor(x)
FFloor(x) == IF x.s < 0 /\ HasFrac(x) THEN -AbsFloor(x) - 1 ELSE FTrunc(x)

\* Python round(x) of a float: nearest integer, ties to the even one
PyRound(x) ==
  LET n    == AbsFloor(x)
      frac == Call("FAdd", <<[x EXCEPT !.s = 1], FInt(-n)>>)
      c    == Call("FAdd", <<Call("FAdd", <<frac, frac>>), FInt(-1)>>)
      up   == c.m # <<>> /\ c.s > 0
      tie  == c.m = <<>> /\ n % 2 = 1
  IN  x.s * (IF up \/ tie THEN n + 1 ELSE n)

\* x ** n for a small int n >= 1 (libm pow, correctly rounded)
RECURSIVE BPow(_, _)
BPow(m, n) == IF n = 1 THEN m ELSE Call("BMul", <<m, BPow(m, n - 1)>>)

FPow(x, n) ==
  IF x.m = <<>> THEN FZero
  ELSE Call("Round", <<IF n % 2 = 0 THEN 1 ELSE x.s, BPow(x.m, n), x.e * n>>)

\* the float a decimal literal num/den denotes (the nearest one)
Dec(num, den) == FDiv(FInt(num), FInt(den))

F0 == FZero
F1 == [s |-> 1, m |-> <<0, 0, 0, 2^10>>, e |-> -52]
F2 == [s |-> 1, m |-> <<0, 0, 0, 2^10>>, e |-> -51]
F3 == [s |-> 1, m |-> <<0, 0, 0, 2^10 + 2^9>>, e |-> -51]
\* 0.25, 0.5 and 1.5
FQuarter == [s |-> 1, m |-> <<0, 0, 0, 2^10>>, e |-> -54]
FHalf == [s |-> 1, m |-> <<0, 0, 0, 2^10>>, e |-> -53]
FOneAndHalf == [s |-> 1, m |-> <<0, 0, 0, 2^10 + 2^9>>, e |-> -52]
\* 1 + k/4 for k in 0..3, and 64 + 8k for k in 0..7
\* 25 * k for k in 0..4
FPercent(k) ==
  CASE k = 0 -> FZero
    [] k = 1 -> [s |-> 1, m |-> <<0, 0, 0, 2^10 + 2^9 + 2^6>>, e |-> -48]
    [] k = 2 -> [s |-> 1, m |-> <<0, 0, 0, 2^10 + 2^9 + 2^6>>, e |-> -47]
    [] k = 3 -> [s |-> 1, m |-> <<0, 0, 0, 2^10 + 2^7 + 2^5 + 2^4>>, e |-> -46]
    [] k = 4 -> [s |-> 1, m |-> <<0, 0, 0, 2^10 + 2^9 + 2^6>>, e |-> -46]
FQuarters(k) == [s |-> 1, m |-> <<0, 0, 0, 2^10 + k * 2^8>>, e |-> -52]
FEights(k) == [s |-> 1, m |-> <<0, 0, 0, 2^10 + k * 2^7>>, e |-> -46]

(***************************************************************************)
(* Easing functions                                                        *)
(***************************************************************************)
BEZIERS ==
  [linear        |-> <<F0,           F0,         F1,           F1>>,
   ease          |-> <<Dec(25, 100), Dec(1, 10), Dec(25, 100), F1>>,
   ease_in       |-> <<Dec(42, 100), F0,         F1,           F1>>,
   ease_out      |-> <<F0,           F0,         Dec(58, 100), F1>>,
   ease_in_out   |-> <<Dec(42, 100), F0,         Dec(58, 100), F1>>]

\* the dictionary's keys as the script spells them
CurveKey(mode) ==
  CASE mode = "linear"      -> "linear"
    [] mode = "ease"        -> "ease"
    [] mode = "ease-in"     -> "ease_in"
    [] mode = "ease-out"    -> "ease_out"
    [] mode = "ease-in-out" -> "ease_in_out"
    [] OTHER                -> "none"

NamedCurves == {"linear", "ease", "ease-in", "ease-out", "ease-in-out"}

\* 3*p1*s*(1-s)**2 + 3*p2*s**2*(1-s) + s**3, evaluated left to right
bezier_x(s, p1x, p2x) ==
  FAdd(FAdd(FMul(FMul(FMul(F3, p1x), s), FPow(FSub(F1, s), 2)),
            FMul(FMul(FMul(F3, p2x), FPow(s, 2)), FSub(F1, s))),
       FPow(s, 3))

bezier_y(s, p1y, p2y) ==
  FAdd(FAdd(FMul(FMul(FMul(F3, p1y), s), FPow(FSub(F1, s), 2)),
            FMul(FMul(FMul(F3, p2y), FPow(s, 2)), FSub(F1, s))),
       FPow(s, 3))

Iterations == 16

RECURSIVE bisect(_, _, _, _, _, _)
bisect(t, p1x, p2x, lo, hi, k) ==
  IF k = 0 THEN <<lo, hi>>
  ELSE CHOOSE r \in
         { IF FLt(bezier_x(mid, p1x, p2x), t)
           THEN bisect(t, p1x, p2x, mid, hi, k - 1)
           ELSE bisect(t, p1x, p2x, lo, mid, k - 1) :
           mid \in {FDiv(FAdd(lo, hi), F2)} } : TRUE

\* the search stopped after half the iterations
cubic_bezier_coarse(t, p1x, p1y, p2x, p2y) ==
  LET lh == bisect(t, p1x, p2x, F0, F1, Iterations \div 2)
  IN  bezier_y(FDiv(FAdd(lh[1], lh[2]), F2), p1y, p2y)

cubic_bezier(t, p1x, p1y, p2x, p2y) ==
  LET lh == bisect(t, p1x, p2x, F0, F1, Iterations)
  IN  bezier_y(FDiv(FAdd(lh[1], lh[2]), F2), p1y, p2y)

\* max(0.0, min(1.0, t))
Clamp01(t) ==
  LET u == IF FLt(t, F1) THEN t ELSE F1
  IN  IF FLt(F0, u) THEN u ELSE F0

\* a name that is not in BEZIERS eased as "linear"
ease_unknown_linear(t, mode) ==
  LET tc == Clamp01(t)
  IN  IF mode \in {"CUT", "HOLD"}
      THEN F1
      ELSE LET b == BEZIERS[CurveKey(IF mode \in NamedCurves THEN mode
                                                           ELSE "linear")]
           IN  cubic_bezier(tc, b[1], b[2], b[3], b[4])

ease(t, mode) ==
  LET tc == Clamp01(t)
  IN  IF mode \in {"CUT", "HOLD"} \/ mode \notin NamedCurves
      THEN F1
      ELSE LET b == BEZIERS[CurveKey(mode)]
           IN  cubic_bezier(tc, b[1], b[2], b[3], b[4])

\* the longest transition window, in frames, whose eased values are tabulated
PathMaxWindow == 3

\* the calls ease(local / tr_frames, tr) of a window of that length
EaseCalls ==
  {<<Call("FDiv", <<FInt(l), FInt(w)>>), mode>> :
     l \in 0..(PathMaxWindow - 1), w \in 1..PathMaxWindow,
     mode \in NamedCurves \cup {"bounce"}}

\* the results of the calls in S, as a table
RECURSIVE EaseTable(_)
EaseTable(S) ==
  IF S = {} THEN <<>>
  ELSE LET k == CHOOSE c \in S : TRUE
       IN  (k :> Call("ease", k)) @@ EaseTable(S \ {k})

EaseMemo == EaseTable(EaseCalls)

\* ease(t, mode), looked up when it has been tabulated
EaseOf(t, mode) ==
  IF <<t, mode>> \in DOMAIN EaseMemo THEN EaseMemo[<<t, mode>>]
  ELSE Call("ease", <<t, mode>>)

(***************************************************************************)
(* Build per-frame camera path                                             *)
(***************************************************************************)
\* beat_frames = total_frames / n_beats
beat_frames(n_total, n_beats) == FDiv(FInt(n_total), FInt(n_beats))

\* f_start = int(round(bi * beat_frames))
param_f_start(bi, n_total, n_beats) ==
  PyRound(FMul(FInt(bi), beat_frames(n_total, n_beats)))

\* f_end = min(int(round((bi + 1) * beat_frames)), total_frames)
param_f_end(bi, n_total, n_beats) ==
  Min(PyRound(FMul(FInt(bi + 1), beat_frames(n_total, n_beats))), n_total)

\* tr_frames = int(round(tr_dur * fps)), 0 for CUT/HOLD or a zero duration
\* no window for a transition name that is not in BEZIERS
tr_frames_known_only(cam, rate) ==
  IF cam.transition \notin NamedCurves \/ cam.duration = F0
  THEN 0
  ELSE PyRound(FMul(cam.duration, rate))

tr_frames(cam, rate) ==
  IF cam.transition \in {"CUT", "HOLD"} \/ cam.duration = F0
  THEN 0
  ELSE PyRound(FMul(cam.duration, rate))

\* a window that takes in the frame just past it
in_window_inclusive(local, trf) == local <= trf /\ trf > 0

\* if local < tr_frames and tr_frames > 0
in_window(local, trf) == local < trf /\ trf > 0

\* progress counted to the end of the frame: t = (local + 1) / tr_frames
frame_value_ahead(from, to, local, trf, tr) ==
  IF in_window(local, trf)
  THEN LET et == EaseOf(FDiv(FInt(local + 1), FInt(trf)), tr)
       IN  FAdd(from, FMul(FSub(to, from), et))
  ELSE to

\* the value one frame of a beat gets, for one of zoom/focusX/focusY
frame_value(from, to, local, trf, tr) ==
  IF in_window(local, trf)
  THEN LET et == EaseOf(FDiv(FInt(local), FInt(trf)), tr)
       IN  FAdd(from, FMul(FSub(to, from), et))
  ELSE to

\* beats[bi - 1] taken for the first beat too (Python's index -1)
prev_camera_wrap(bs, bi) ==
  IF bi = 0 THEN bs[Len(bs)].camera ELSE bs[bi].camera

\* the camera the beat's "from" values come from
prev_camera(bs, bi) ==
  IF bi = 0 THEN bs[bi + 1].camera ELSE bs[bi].camera

\* the body of "for bi, beat in enumerate(beats)" for one beat
fill_beat(bs, n_total, rate, bi, acc) ==
  LET cam     == bs[bi + 1].camera
      prev    == prev_camera(bs, bi)
      f_start == param_f_start(bi, n_total, Len(bs))
      f_end   == param_f_end(bi, n_total, Len(bs))
      trf     == tr_frames(cam, rate)
      upd(arr, from, to) ==
        [f \in 0..(n_total - 1) |->
           IF f_start <= f /\ f < f_end
           THEN frame_value(from, to, f - f_start, trf, cam.transition)
           ELSE arr[f]]
  IN  [zooms |-> upd(acc.zooms, prev.zoom, cam.zoom),
       fxs   |-> upd(acc.fxs, prev.focusX, cam.focusX),
       fys   |-> upd(acc.fys, prev.focusY, cam.focusY)]

RECURSIVE fill_beats(_, _, _, _, _)
fill_beats(bs, n_total, rate, bi, acc) ==
  IF bi = Len(bs) THEN acc
  ELSE fill_beats(bs, n_total, rate, bi + 1, fill_beat(bs, n_total, rate, bi, acc))

build_frame_params(bs, n_total, rate, total_duration) ==
  LET zero == [f \in 0..(n_total - 1) |-> F0]
  IN  fill_beats(bs, n_total, rate, 0, [zooms |-> zero, fxs |-> zero, fys |-> zero])

(***************************************************************************)
(* Build frame->beat index lookup                                          *)
(***************************************************************************)
\* f_start = int(round(bi * total_frames / n))
\* the start boundary taken one past the quotient's floor
index_f_start_up(bi, n_total, n) ==
  FFloor(FDiv(FInt(bi * n_total), FInt(n))) + 1

index_f_start(bi, n_total, n) == PyRound(FDiv(FInt(bi * n_total), FInt(n)))

\* the end boundary cut down instead of rounded
index_f_end_floor(bi, n_total, n) ==
  Min(FFloor(FDiv(FInt((bi + 1) * n_total), FInt(n))), n_total)

\* f_end = min(int(round((bi + 1) * total_frames / n)), total_frames)
index_f_end(bi, n_total, n) ==
  Min(PyRound(FDiv(FInt((bi + 1) * n_total), FInt(n))), n_total)

\* idx[f_start:f_end] = bi
index_assign(idx, bi, n_total, n) ==
  LET f_start == index_f_start(bi, n_total, n)
      f_end   == index_f_end(bi, n_total, n)
  IN  [f \in 0..(n_total - 1) |->
         IF f_start <= f /\ f < f_end THEN bi ELSE idx[f]]

RECURSIVE fill_index(_, _, _, _)
fill_index(n, n_total, bi, idx) ==
  IF bi = n THEN idx
  ELSE fill_index(n, n_total, bi + 1, index_assign(idx, bi, n_total, n))

build_beat_index(bs, n_total) ==
  fill_index(Len(bs), n_total, 0, [f \in 0..(n_total - 1) |-> 0])

(***************************************************************************)
(* Apply camera transform to a single frame                                *)
(***************************************************************************)
\* the number of elements a[start:stop] takes from an axis of length n,
\* for start >= 0 (a negative stop counts from the end)
slice_len(start, stop, n) ==
  LET lo == Min(start, n)
      hi == IF stop < 0 THEN Max(stop + n, 0) ELSE Min(stop, n)
  IN  Max(hi - lo, 0)

\* the crop origin left where the focus puts it
origin_unclamped(size, crop_size, c) == c - crop_size \div 2

\* x1 = max(0, min(w - crop_w, cx - crop_w // 2))
crop_origin(size, crop_size, c) ==
  Max(0, Min(size - crop_size, c - crop_size \div 2))

\* the crop rectangle of apply_transform on a w x h frame; raises is set
\* when round() is given w / 0.0 or cv2.resize is given an empty crop
apply_transform(w, h, zoom, fx_pct, fy_pct) ==
  IF zoom.m = <<>>
  THEN [raises |-> TRUE, crop_w |-> 0, crop_h |-> 0, x1 |-> 0, y1 |-> 0]
  ELSE LET crop_w == PyRound(FDiv(FInt(w), zoom))
           crop_h == PyRound(FDiv(FInt(h), zoom))
           cx     == PyRound(FMul(FDiv(fx_pct, FInt(100)), FInt(w)))
           cy     == PyRound(FMul(FDiv(fy_pct, FInt(100)), FInt(h)))
           x1     == crop_origin(w, crop_w, cx)
           y1     == crop_origin(h, crop_h, cy)
       IN  [raises |-> slice_len(x1, x1 + crop_w, w) = 0
                         \/ slice_len(y1, y1 + crop_h, h) = 0,
            crop_w |-> crop_w, crop_h |-> crop_h, x1 |-> x1, y1 |-> y1]

(***************************************************************************)
(* Write SRT subtitle file.  Strings are sequences of one-character        *)
(* strings.                                                                *)
(***************************************************************************)
\* x // y and x % y for floats x >= 0, y > 0: [q |-> int, r |-> float]
FloorDivMod(x, y) ==
  IF x.m = <<>> THEN [q |-> 0, r |-> FZero]
  ELSE LET e  == Min(x.e, y.e)
           qr == Call("BDivMod", <<Call("Shl", <<x.m, x.e - e>>),
                                   Call("Shl", <<y.m, y.e - e>>)>>)
       IN  [q |-> IntOf(qr[1]), r |-> Call("Round", <<1, qr[2], e>>)]

DigitChar(d) == <<"0", "1", "2", "3", "4", "5", "6", "7", "8", "9">>[d + 1]

\* str(n) for an int n >= 0
RECURSIVE Digits(_)
Digits(n) ==
  IF n < 10 THEN <<DigitChar(n)>>
  ELSE Digits(n \div 10) \o <<DigitChar(n % 10)>>

\* f"{n:0wd}"
RECURSIVE Pad(_, _)
Pad(d, w) == IF Len(d) >= w THEN d ELSE Pad(<<"0">> \o d, w)

fmt_srt_time(seconds) ==
  LET h  == FloorDivMod(seconds, FInt(3600)).q
      m  == FloorDivMod(FloorDivMod(seconds, FInt(3600)).r, FInt(60)).q
      s  == FTrunc(FloorDivMod(seconds, FInt(60)).r)
      ms == PyRound(FMul(FSub(seconds, FInt(FTrunc(seconds))), FInt(1000)))
  IN  Pad(Digits(h), 2) \o <<":">> \o Pad(Digits(m), 2) \o <<":">>
        \o Pad(Digits(s), 2) \o <<",">> \o Pad(Digits(ms), 3)

Arrow == <<" ", "-", "-", ">", " ">>

\* beat.get("script", "")
script_of(beat) == IF "script" \in DOMAIN beat THEN beat.script ELSE <<>>

\* every script taken for a caption
never_silent(script) == FALSE

\* script.startswith("[")
starts_with_bracket(script) == Len(script) > 0 /\ script[1] = "["

\* t_start = bi * beat_dur
entry_start(bi, beat_dur) == FMul(FInt(bi), beat_dur)

\* an entry that ends where it starts
entry_end_at_start(bi, beat_dur) == FMul(FInt(bi), beat_dur)

\* t_end = (bi + 1) * beat_dur
entry_end(bi, beat_dur) == FMul(FInt(bi + 1), beat_dur)

\* the loop of write_srt from beat bi on; idx is the next sequence number
RECURSIVE srt_lines(_, _, _, _)
srt_lines(bs, beat_dur, bi, idx) ==
  IF bi = Len(bs) THEN <<>>
  ELSE IF starts_with_bracket(script_of(bs[bi + 1]))
  THEN srt_lines(bs, beat_dur, bi + 1, idx)
  ELSE <<Digits(idx),
         fmt_srt_time(entry_start(bi, beat_dur)) \o Arrow
           \o fmt_srt_time(entry_end(bi, beat_dur)),
         script_of(bs[bi + 1]),
         <<>>>> \o srt_lines(bs, beat_dur, bi + 1, idx + 1)

\* the lines written to the subtitle file, joined there by "\n"
write_srt(bs, total_duration) ==
  srt_lines(bs, FDiv(total_duration, FInt(Len(bs))), 0, 1)

(***************************************************************************)
(* Draw subtitle overlay onto frame: the layout of the bar                 *)
(***************************************************************************)
pad_y == 16

\* bar_h and bar_y for a frame of height h and a measured text of height th
\* with the given baseline
bar_layout(h, th, baseline) ==
  LET bar_h == th + baseline + pad_y * 2
      mid   == FTrunc(FMul(FInt(h), Dec(80, 100))) - bar_h \div 2
  IN  [drawn |-> TRUE, bar_h |-> bar_h, bar_y |-> Max(0, Min(h - bar_h, mid))]

\* a beat without a script taken for a silent one
draw_subtitle_bare_silent(beat, h, th, baseline) ==
  IF "script" \notin DOMAIN beat \/ starts_with_bracket(beat.script)
  THEN [drawn |-> FALSE, bar_h |-> 0, bar_y |-> 0]
  ELSE bar_layout(h, th, baseline)

\* draw_subtitle: no bar for a silent beat
draw_subtitle(beat, h, th, baseline) ==
  IF starts_with_bracket(script_of(beat))
  THEN [drawn |-> FALSE, bar_h |-> 0, bar_y |-> 0]
  ELSE bar_layout(h, th, baseline)

(***************************************************************************)
(* main(): the run's duration, frame rate and frame count, from the        *)
(* options and the opened source.                                          *)
(***************************************************************************)
\* the default of --duration: 30.0
DefaultDuration == [s |-> 1, m |-> <<0, 0, 0, 2^10 + 2^9 + 2^8 + 2^7>>, e |-> -48]
\* the default of --fps: None
NoFps == [s |-> 0, m |-> <<>>, e |-> 0]

\* src_total / src_fps for every value of the option but 30.0
run_duration(args_duration, n_src, source_fps) ==
  IF args_duration # DefaultDuration THEN args_duration
  ELSE FDiv(FInt(n_src), source_fps)

\* args.fps or src_fps: None and 0.0 both give way to the source's rate
run_fps(args_fps, source_fps) ==
  IF args_fps # NoFps /\ args_fps.m # <<>> THEN args_fps ELSE source_fps

\* int(round(duration * fps))
run_total_frames(d, rate) == PyRound(FMul(d, rate))

run_timing(args_duration, args_fps, n_src, source_fps) ==
  LET d    == run_duration(args_duration, n_src, source_fps)
      rate == run_fps(args_fps, source_fps)
  IN  [duration |-> d, fps |-> rate, total_frames |-> run_total_frames(d, rate)]

(***************************************************************************)
(* The functions that are reached by name.                                 *)
(***************************************************************************)
Call(f, a) ==
  CASE f = "BAdd"    -> BAdd(a[1], a[2])
    [] f = "BSub"    -> BSub(a[1], a[2])
    [] f = "BCmp"    -> BCmp(a[1], a[2])
    [] f = "BMul"    -> BMul(a[1], a[2])
    [] f = "Shl"     -> Shl(a[1], a[2])
    [] f = "Shr"     -> Shr(a[1], a[2])
    [] f = "BDivMod" -> BDivMod(a[1], a[2])
    [] f = "Round"   -> Round(a[1], a[2], a[3])
    [] f = "FInt"    -> FInt(a[1])
    [] f = "Dec"     -> Dec(a[1], a[2])
    [] f = "FAdd"    -> FAdd(a[1], a[2])
    [] f = "FDiv"    -> FDiv(a[1], a[2])
    [] f = "ease"    -> ease(a[1], a[2])
    [] f = "draw_subtitle" -> draw_subtitle(a[1], a[2], a[3], a[4])
    [] f = "apply_transform" -> apply_transform(a[1], a[2], a[3], a[4], a[5])
    [] f = "build_frame_params" -> build_frame_params(a[1], a[2], a[3], a[4])
    [] f = "build_beat_index"   -> build_beat_index(a[1], a[2])
    [] f = "fmt_srt_time"       -> fmt_srt_time(a[1])
    [] f = "write_srt"          -> write_srt(a[1], a[2])
    [] f = "run_total_frames"   -> run_total_frames(a[1], a[2])
    [] f = "run_timing"         -> run_timing(a[1], a[2], a[3], a[4])

(***************************************************************************)
(* main(): "Build per-frame data"                                          *)
(***************************************************************************)
BuildFrameParams ==
  /\ pc = "build_frame_params"
  /\ Len(beats) > 0
  /\ LET r == Call("build_frame_params", <<beats, total_frames, fps, duration>>)
     IN  /\ zooms' = r.zooms
         /\ fxs' = r.fxs
         /\ fys' = r.fys
  /\ pc' = "build_beat_index"
  /\ UNCHANGED <<beats, total_frames, fps, duration, beat_idx,
               srtVars, runVars, easeVars>>
  /\ UNCHANGED <<callVars, frameVars, ioVars>>
  /\ UNCHANGED <<optVars, peakVars>>

BuildBeatIndex ==
  /\ pc = "build_beat_index"
  /\ beat_idx' = Call("build_beat_index", <<beats, total_frames>>)
  /\ pc' = "open_writer"
  /\ UNCHANGED <<beats, total_frames, fps, duration, zooms, fxs, fys,
               srtVars, runVars, easeVars>>
  /\ UNCHANGED <<callVars, frameVars, ioVars>>
  /\ UNCHANGED <<optVars, peakVars>>

(***************************************************************************)
(* Values of the variables a specification does not use.                   *)
(***************************************************************************)
NoSrt == opt_srt = FALSE /\ srt = <<>>
NoRun ==
  /\ src_total = 0 /\ frame_w = 0 /\ frame_h = 0
  /\ cap_pos = 0 /\ fi = 0 /\ reads = <<>> /\ written = 0
NoEase == ease_t = F0 /\ ease_mode = "CUT" /\ ease_val = F0
NoCalls == calls = <<>>
NoFrame == crop = <<>> /\ bar = <<>>
NoIo ==
  /\ opened = TRUE /\ files = {} /\ avi_size = -1 /\ has_audio = FALSE
  /\ probes = 0 /\ encodes = 0 /\ returncode = 0 /\ out_size = 0
  /\ status = "running"
NoPeaks ==
  /\ result_map = [h |-> 0, w |-> 0, cells |-> <<>>]
  /\ threshold = 0 /\ min_dist_px = 0 /\ peaks = <<>>
NoOpts == opt_duration = DefaultDuration /\ opt_fps = NoFps /\ src_fps = F1
NoTimeline ==
  /\ beats = <<>> /\ total_frames = 0 /\ fps = F1 /\ duration = F0
  /\ zooms = NoArray /\ fxs = NoArray /\ fys = NoArray /\ beat_idx = NoArray

(***************************************************************************)
(* The slice partition: timelines of n CUT beats, beat i with zoom i, on   *)
(* every frame grid up to the bounds.                                      *)
(***************************************************************************)
SliceMaxBeats == 15
SliceMaxFrames == 30

CutBeat(i) ==
  [id     |-> "1a",
   camera |-> [zoom |-> FInt(i), focusX |-> FInt(50), focusY |-> FInt(50),
               transition |-> "CUT", duration |-> F0],
   script |-> <<"H", "i">>]

InitSlices ==
  /\ pc = "build_frame_params"
  /\ NoSrt /\ NoRun /\ NoEase /\ NoCalls /\ NoFrame /\ NoIo /\ NoOpts /\ NoPeaks
  /\ fps = F1
  /\ zooms = NoArray /\ fxs = NoArray /\ fys = NoArray /\ beat_idx = NoArray
  /\ \E n \in 1..SliceMaxBeats, T \in 1..SliceMaxFrames :
       /\ beats = [i \in 1..n |-> CutBeat(i)]
       /\ total_frames = T
       /\ duration = FInt(T)

NextSlices == BuildFrameParams \/ BuildBeatIndex

SpecSlices == InitSlices /\ [][NextSlices]_vars

\* both arrays are built
IndexBuilt == pc = "open_writer"

\* C1: with total_frames >= n, the index slices [f_start(i), f_end(i)) are
\* contiguous from 0 to total_frames, pairwise disjoint, and beat_idx maps
\* every frame to the one beat whose slice holds it.
C1_IndexPartition ==
  (IndexBuilt /\ total_frames >= Len(beats)) =>
    \E n \in {Len(beats)} :
    \E S \in {[i \in 0..(n - 1) |-> index_f_start(i, total_frames, n)]} :
    \E E \in {[i \in 0..(n - 1) |-> index_f_end(i, total_frames, n)]} :
      /\ S[0] = 0
      /\ E[n - 1] = total_frames
      /\ \A i \in 0..(n - 1) : S[i] <= E[i]
      /\ \A i \in 0..(n - 2) : E[i] = S[i + 1]
      /\ \A i, j \in 0..(n - 1) :
           i # j => {f \in 0..(total_frames - 1) : S[i] <= f /\ f < E[i]}
                    \cap {f \in 0..(total_frames - 1) : S[j] <= f /\ f < E[j]} = {}
      /\ DOMAIN beat_idx = 0..(total_frames - 1)
      /\ \A f \in 0..(total_frames - 1) :
           /\ beat_idx[f] \in 0..(n - 1)
           /\ \A i \in 0..(n - 1) :
                (S[i] <= f /\ f < E[i]) <=> (beat_idx[f] = i)

\* four beats on ten frames: boundaries 2.5 and 7.5 round to 2 and 8
C1_Witness ==
  /\ IndexBuilt
  /\ Len(beats) = 4 /\ total_frames = 10
  /\ beat_idx[1] = 0 /\ beat_idx[2] = 1 /\ beat_idx[4] = 1 /\ beat_idx[5] = 2
  /\ beat_idx[7] = 2 /\ beat_idx[8] = 3 /\ beat_idx[9] = 3

\* C2: the parameter slices and the index slices have the same boundaries,
\* so every frame's camera values are those of the beat beat_idx names.
C2_SlicesAgree ==
  IndexBuilt =>
    /\ \A i \in 0..(Len(beats) - 1) :
         /\ param_f_start(i, total_frames, Len(beats))
              = index_f_start(i, total_frames, Len(beats))
         /\ param_f_end(i, total_frames, Len(beats))
              = index_f_end(i, total_frames, Len(beats))
    /\ \A f \in 0..(total_frames - 1) :
         /\ zooms[f] = beats[beat_idx[f] + 1].camera.zoom
         /\ fxs[f] = beats[beat_idx[f] + 1].camera.focusX
         /\ fys[f] = beats[beat_idx[f] + 1].camera.focusY

\* fourteen beats on 29 frames: frame 14 carries beat 6's zoom, indexed 7
C2_Witness ==
  /\ IndexBuilt
  /\ Len(beats) = 14 /\ total_frames = 29
  /\ beat_idx[14] = 7
  /\ zooms[14] = beats[7].camera.zoom

(***************************************************************************)
(* main(): the frame loop.  The capture is a file of src_total decodable   *)
(* frames; cap.read() decodes the frame at the capture's position and      *)
(* advances it, and fails at the end of the file.                          *)
(***************************************************************************)
cap_read(pos, n) ==
  IF pos < n THEN [ret |-> TRUE, frame |-> pos, pos |-> pos + 1]
             ELSE [ret |-> FALSE, frame |-> -1, pos |-> pos]

\* the read that skips the rewind
read_frame_norewind(pos, n) == cap_read(pos, n)

\* ret, frame = cap.read(); if not ret: rewind to frame 0 and read again
read_frame(pos, n) ==
  LET first == cap_read(pos, n)
  IN  IF first.ret THEN first ELSE cap_read(0, n)

OpenWriter ==
  /\ pc = "open_writer"
  /\ pc' = "loop"
  /\ fi' = 0
  /\ files' = files \cup {"avi"}
  /\ UNCHANGED <<timelineVars, srtVars, easeVars,
                 src_total, frame_w, frame_h, cap_pos, reads, written>>
  /\ UNCHANGED <<callVars, frameVars, opened, avi_size, has_audio, probes,
                 encodes, returncode, out_size, status>>
  /\ UNCHANGED <<optVars, peakVars>>

\* apply_transform(frame, zooms[fi], fxs[fi], fys[fi]) on a decoded frame
transform_raises(f) ==
  Call("apply_transform", <<frame_w, frame_h, zooms[f], fxs[f], fys[f]>>).raises

\* one pass of the loop body that reaches writer.write(frame)
RenderFrame ==
  /\ pc = "loop"
  /\ fi < total_frames
  /\ LET r == read_frame(cap_pos, src_total)
     IN  /\ r.ret
         /\ cap_pos' = r.pos
         /\ reads' = Append(reads, r.frame)
  /\ ~transform_raises(fi)
  /\ written' = written + 1
  /\ fi' = fi + 1
  /\ UNCHANGED <<pc, timelineVars, srtVars, easeVars, src_total, frame_w, frame_h>>
  /\ UNCHANGED <<callVars, frameVars, ioVars>>
  /\ UNCHANGED <<optVars, peakVars>>

\* both reads failed: break
RenderBreak ==
  /\ pc = "loop"
  /\ fi < total_frames
  /\ LET r == read_frame(cap_pos, src_total)
     IN  /\ ~r.ret
         /\ cap_pos' = r.pos
  /\ pc' = "release"
  /\ UNCHANGED <<timelineVars, srtVars, easeVars,
                 src_total, frame_w, frame_h, fi, reads, written>>
  /\ UNCHANGED <<callVars, frameVars, ioVars>>
  /\ UNCHANGED <<optVars, peakVars>>

\* range(total_frames) is exhausted
LoopDone ==
  /\ pc = "loop"
  /\ fi = total_frames
  /\ pc' = "release"
  /\ UNCHANGED <<timelineVars, srtVars, easeVars, runVars>>
  /\ UNCHANGED <<callVars, frameVars, ioVars>>
  /\ UNCHANGED <<optVars, peakVars>>

\* a frame was read and apply_transform raised: the exception ends the run
RenderCrash ==
  /\ pc = "loop"
  /\ fi < total_frames
  /\ LET r == read_frame(cap_pos, src_total)
     IN  /\ r.ret
         /\ cap_pos' = r.pos
  /\ transform_raises(fi)
  /\ status' = "crashed"
  /\ pc' = "exit"
  /\ UNCHANGED <<timelineVars, srtVars, easeVars,
                 src_total, frame_w, frame_h, fi, reads, written>>
  /\ UNCHANGED <<callVars, frameVars, opened, files, avi_size, has_audio,
                 probes, encodes, returncode, out_size>>
  /\ UNCHANGED <<optVars, peakVars>>

(***************************************************************************)
(* main(): opening the capture, and the steps after the frame loop         *)
(***************************************************************************)
\* the capture never reported as failing to open
open_never_failed(ok) == FALSE

\* if not cap.isOpened()
open_failed(ok) == ~ok

\* the capture opened: go on to the duration and the subtitle file
OpenCapture ==
  /\ pc = "open_capture"
  /\ ~open_failed(opened)
  /\ LET t == Call("run_timing", <<opt_duration, opt_fps, src_total, src_fps>>)
     IN  /\ duration' = t.duration
         /\ fps' = t.fps
         /\ total_frames' = t.total_frames
  /\ pc' = "write_srt"
  /\ UNCHANGED <<beats, zooms, fxs, fys, beat_idx>>
  /\ UNCHANGED <<srtVars, runVars, easeVars>>
  /\ UNCHANGED <<callVars, frameVars, ioVars>>
  /\ UNCHANGED <<optVars, peakVars>>

\* print the error and sys.exit(1)
OpenFails ==
  /\ pc = "open_capture"
  /\ open_failed(opened)
  /\ status' = "error"
  /\ pc' = "exit"
  /\ UNCHANGED <<timelineVars, srtVars, runVars, easeVars>>
  /\ UNCHANGED <<callVars, frameVars, opened, files, avi_size, has_audio,
                 probes, encodes, returncode, out_size>>
  /\ UNCHANGED <<optVars, peakVars>>

\* the source stops being readable while the loop runs (file removed,
\* device unplugged): every later read fails, also after a rewind
SourceLost ==
  /\ pc = "loop"
  /\ src_total > 0
  /\ src_total' = 0
  /\ UNCHANGED <<pc, timelineVars, srtVars, easeVars,
                 frame_w, frame_h, cap_pos, fi, reads, written>>
  /\ UNCHANGED <<callVars, frameVars, ioVars>>
  /\ UNCHANGED <<optVars, peakVars>>

MinAviSize == 1000

\* a file counted as too small only when it is empty
avi_only_empty(size) == size = 0

\* if avi_size < 1000
avi_too_small(size) == size < MinAviSize

\* the sizes the intermediate file is found to have
AviSizes == {0, MinAviSize - 1, MinAviSize}

\* release both, measure the file: too small, remove it and sys.exit(1)
AviTooSmall ==
  /\ pc = "release"
  /\ \E size \in AviSizes :
       /\ avi_too_small(size)
       /\ avi_size' = size
  /\ files' = files \ {"avi"}
  /\ status' = "error"
  /\ pc' = "exit"
  /\ UNCHANGED <<timelineVars, srtVars, runVars, easeVars>>
  /\ UNCHANGED <<callVars, frameVars, opened, has_audio, probes, encodes,
                 returncode, out_size>>
  /\ UNCHANGED <<optVars, peakVars>>

\* release both, measure the file: large enough
AviPlausible ==
  /\ pc = "release"
  /\ \E size \in AviSizes :
       /\ ~avi_too_small(size)
       /\ avi_size' = size
  /\ pc' = "probe"
  /\ UNCHANGED <<timelineVars, srtVars, runVars, easeVars>>
  /\ UNCHANGED <<callVars, frameVars, opened, files, has_audio, probes,
                 encodes, returncode, out_size, status>>
  /\ UNCHANGED <<optVars, peakVars>>

\* ffprobe: has_audio = "audio" in probe.stdout
ProbeAudio ==
  /\ pc = "probe"
  /\ probes' = probes + 1
  /\ has_audio' \in BOOLEAN
  /\ pc' = "encode"
  /\ UNCHANGED <<timelineVars, srtVars, runVars, easeVars>>
  /\ UNCHANGED <<callVars, frameVars, opened, files, avi_size, encodes,
                 returncode, out_size, status>>
  /\ UNCHANGED <<optVars, peakVars>>

\* an output of size 0 taken for a good one
encode_status_lenient(rc, exists, size) ==
  IF rc # 0 \/ ~exists THEN "error" ELSE "done"

\* returncode != 0: exit(1); output missing or empty: exit(1); else done
encode_status(rc, exists, size) ==
  IF rc # 0 THEN "error"
  ELSE IF ~exists \/ size = 0 THEN "error"
  ELSE "done"

\* what ffmpeg can leave at the output path: nothing, or a file of a size
EncodeOutcomes ==
  {[rc |-> rc, exists |-> ex, size |-> sz] :
     rc \in {0, 1}, ex \in BOOLEAN, sz \in {0, 1}} \
  {[rc |-> rc, exists |-> FALSE, size |-> 1] : rc \in {0, 1}}

\* subprocess.run(ffmpeg_cmd), os.remove(tmp_avi), the two checks
Encode ==
  /\ pc = "encode"
  /\ encodes' = encodes + 1
  /\ \E o \in EncodeOutcomes :
       /\ returncode' = o.rc
       /\ out_size' = o.size
       /\ files' = (files \ {"avi"}) \cup (IF o.exists THEN {"out"} ELSE {})
       /\ status' = encode_status(o.rc, o.exists, o.size)
  /\ pc' = "exit"
  /\ UNCHANGED <<timelineVars, srtVars, runVars, easeVars>>
  /\ UNCHANGED <<callVars, frameVars, opened, avi_size, has_audio, probes>>
  /\ UNCHANGED <<optVars, peakVars>>

RunMaxSrc == 3
RunMaxFrames == 7
RunMaxBeats == 2

InitRun ==
  /\ pc = "build_frame_params"
  /\ NoSrt /\ NoEase /\ NoCalls /\ NoFrame /\ NoIo /\ NoOpts /\ NoPeaks
  /\ fps = F1
  /\ zooms = NoArray /\ fxs = NoArray /\ fys = NoArray /\ beat_idx = NoArray
  /\ cap_pos = 0 /\ fi = 0 /\ reads = <<>> /\ written = 0
  /\ \E n \in 1..RunMaxBeats, T \in 0..RunMaxFrames, N \in 0..RunMaxSrc :
       /\ beats = [i \in 1..n |-> CutBeat(i)]
       /\ total_frames = T
       /\ duration = FInt(T)
       /\ src_total = N
       /\ frame_w = 4 /\ frame_h = 2

NextRun ==
  \/ BuildFrameParams
  \/ BuildBeatIndex
  \/ OpenWriter
  \/ RenderFrame
  \/ RenderBreak
  \/ LoopDone

SpecRun == InitRun /\ [][NextRun]_vars

\* C3: with src_total >= 1 readable frames, output frame f is made from
\* source frame f mod src_total, one frame is written per read, and the
\* loop ends with exactly total_frames frames written.
C3_LoopingReads ==
  (pc \in {"loop", "release"} /\ src_total >= 1) =>
    /\ Len(reads) = fi
    /\ written = fi
    /\ \A f \in 0..(fi - 1) : reads[f + 1] = f % src_total
    /\ pc = "release" => written = total_frames

\* a 3-frame source on 7 output frames reads 0,1,2,0,1,2,0
C3_Witness ==
  /\ pc = "release"
  /\ src_total = 3 /\ total_frames = 7
  /\ reads = <<0, 1, 2, 0, 1, 2, 0>>
  /\ written = 7

(***************************************************************************)
(* main(): "Write SRT now that duration is known"                          *)
(***************************************************************************)
WriteSrt ==
  /\ pc = "write_srt"
  /\ opt_srt
  /\ srt' = Call("write_srt", <<beats, duration>>)
  /\ files' = files \cup {"srt"}
  /\ pc' = "build_frame_params"
  /\ UNCHANGED <<timelineVars, opt_srt, runVars, easeVars>>
  /\ UNCHANGED <<callVars, frameVars, opened, avi_size, has_audio, probes,
                 encodes, returncode, out_size, status>>
  /\ UNCHANGED <<optVars, peakVars>>

SkipSrt ==
  /\ pc = "write_srt"
  /\ ~opt_srt
  /\ pc' = "build_frame_params"
  /\ UNCHANGED <<timelineVars, srtVars, runVars, easeVars>>
  /\ UNCHANGED <<callVars, frameVars, ioVars>>
  /\ UNCHANGED <<optVars, peakVars>>

SrtMaxBeats == 11
\* beat lists of up to this length come with every choice of silent beats
SrtAllPatterns == 3

Spoken == <<"H", "i">>
Silent == <<"[", "p", "a", "u", "s", "e", "]">>

\* beat i of a list: silent, without a script, or spoken
SrtBeat(i, silent, bare) ==
  IF i \in silent THEN [CutBeat(i) EXCEPT !.script = Silent]
  ELSE IF i \in bare THEN [id |-> "1a", camera |-> CutBeat(i).camera]
  ELSE [CutBeat(i) EXCEPT !.script = Spoken]

InitSrt ==
  /\ pc = "write_srt"
  /\ NoRun /\ NoEase /\ NoCalls /\ NoFrame /\ NoIo /\ NoOpts /\ NoPeaks
  /\ srt = <<>>
  /\ opt_srt \in BOOLEAN
  /\ fps = F1
  /\ zooms = NoArray /\ fxs = NoArray /\ fys = NoArray /\ beat_idx = NoArray
  /\ \E n \in 1..SrtMaxBeats, D \in {15, 30} :
     \E silent \in {S \in SUBSET (1..n) :
                      n <= SrtAllPatterns \/ Cardinality(S) <= 1} :
     \E bare \in {{}, {1}} :
       /\ beats = [i \in 1..n |-> SrtBeat(i, silent, bare)]
       /\ total_frames = D
       /\ duration = FInt(D)

NextSrt == WriteSrt \/ SkipSrt

SpecSrt == InitSrt /\ [][NextSrt]_vars

SrtWritten == pc = "build_frame_params" /\ opt_srt

\* a stage-direction script: its first character is "["
Bracketed(script) == script # <<>> /\ Head(script) = "["

\* a silent beat has a script and the script is a stage direction
SilentBeat(beat) == "script" \in DOMAIN beat /\ Bracketed(beat.script)

\* 0-based positions of the beats that are not silent, in beat order
CaptionPositions ==
  SelectSeq([i \in 1..Len(beats) |-> i - 1],
            LAMBDA p : ~SilentBeat(beats[p + 1]))

\* C4: the file holds one four-line entry per non-silent beat, in beat
\* order, numbered 1, 2, ..., k without gaps; silent beats leave no entry.
C4_SrtNumbering ==
  SrtWritten =>
    \E P \in {CaptionPositions} :
      /\ Len(srt) = 4 * Len(P)
      /\ \A k \in 1..Len(P) :
           /\ srt[4 * k - 3] = Digits(k)
           /\ srt[4 * k - 1] = script_of(beats[P[k] + 1])
           /\ ~Bracketed(srt[4 * k - 1])
           /\ srt[4 * k] = <<>>

\* three beats, the middle one silent: entries 1 and 2, for beats 0 and 2
C4_Witness ==
  /\ SrtWritten
  /\ Len(beats) = 3
  /\ SilentBeat(beats[2])
  /\ Len(srt) = 8
  /\ srt[1] = <<"1">> /\ srt[5] = <<"2">>
  /\ srt[3] = Spoken /\ srt[7] = Spoken

\* |x - num/den| <= 2^-40 for the float x
NearRatio(x, num, den) ==
  \E d \in {FSub(x, FDiv(FInt(num), FInt(den)))} :
    FLe([d EXCEPT !.s = 1], [s |-> 1, m |-> F1.m, e |-> F1.e - 40])

\* C5: the entry of the non-silent beat at position i of n spans from
\* i * total_duration / n to (i + 1) * total_duration / n, whatever its
\* sequence number is.
C5_SrtSpans ==
  SrtWritten =>
    \E P \in {CaptionPositions}, n \in {Len(beats)}, D \in {FTrunc(duration)} :
    \E bd \in {FDiv(duration, FInt(n))} :
      \A k \in 1..Len(P) :
        \E t0 \in {FMul(FInt(P[k]), bd)}, t1 \in {FMul(FInt(P[k] + 1), bd)} :
          /\ srt[4 * k - 2]
               = Call("fmt_srt_time", <<t0>>) \o Arrow \o Call("fmt_srt_time", <<t1>>)
          /\ FInt(D) = duration
          /\ NearRatio(t0, P[k] * D, n)
          /\ NearRatio(t1, (P[k] + 1) * D, n)

\* three beats on 30 seconds, the middle one silent
C5_Witness ==
  /\ SrtWritten
  /\ Len(beats) = 3 /\ duration = FInt(30)
  /\ SilentBeat(beats[2])
  /\ srt[2] = <<"0", "0", ":", "0", "0", ":", "0", "0", ",", "0", "0", "0">>
                \o Arrow \o
              <<"0", "0", ":", "0", "0", ":", "1", "0", ",", "0", "0", "0">>
  /\ srt[6] = <<"0", "0", ":", "0", "0", ":", "2", "0", ",", "0", "0", "0">>
                \o Arrow \o
              <<"0", "0", ":", "0", "0", ":", "3", "0", ",", "0", "0", "0">>

IsDigit(c) == c \in {"0", "1", "2", "3", "4", "5", "6", "7", "8", "9"}

\* HH:MM:SS,mmm with minutes and seconds below 60
WellFormedTime(tc) ==
  /\ Len(tc) = 12
  /\ \A i \in {1, 2, 4, 5, 7, 8, 10, 11, 12} : IsDigit(tc[i])
  /\ tc[3] = ":" /\ tc[6] = ":" /\ tc[9] = ","
  /\ tc[4] \in {"0", "1", "2", "3", "4", "5"}
  /\ tc[7] \in {"0", "1", "2", "3", "4", "5"}

\* C6: every timecode write_srt puts in the file is HH:MM:SS,mmm with a
\* three-digit millisecond field.
C6_TimecodesWellFormed ==
  SrtWritten =>
    \A k \in 1..(Len(srt) \div 4) :
      /\ Len(srt[4 * k - 2]) = 12 + 5 + 12
      /\ WellFormedTime(SubSeq(srt[4 * k - 2], 1, 12))
      /\ SubSeq(srt[4 * k - 2], 13, 17) = Arrow
      /\ WellFormedTime(SubSeq(srt[4 * k - 2], 18, 29))

\* eleven beats on 15 seconds: the last entry ends at "00:00:14,1000"
C6_Witness ==
  /\ SrtWritten
  /\ Len(beats) = 11 /\ duration = FInt(15)
  /\ Len(srt) = 44
  /\ SubSeq(srt[42], 18, 30)
       = <<"0", "0", ":", "0", "0", ":", "1", "4", ",", "1", "0", "0", "0">>

(***************************************************************************)
(* The camera path: timelines of up to PathMaxBeats beats that share one   *)
(* transition name and one duration, at 2 frames per second.               *)
(***************************************************************************)
PathMaxBeats == 3
PathMaxFrames == 8

PathModes == NamedCurves \cup {"CUT", "HOLD", "bounce"}
PathDurations == {F0, FQuarter, FHalf, F1, FOneAndHalf}

PathBeat(i, mode, dur) ==
  [id     |-> "1a",
   camera |-> [zoom |-> FQuarters(i), focusX |-> FEights(i),
               focusY |-> FEights(4 - i),
               transition |-> mode, duration |-> dur],
   script |-> Spoken]

InitPath ==
  /\ pc = "build_frame_params"
  /\ NoSrt /\ NoRun /\ NoEase /\ NoCalls /\ NoFrame /\ NoIo /\ NoOpts /\ NoPeaks
  /\ fps = F2
  /\ zooms = NoArray /\ fxs = NoArray /\ fys = NoArray /\ beat_idx = NoArray
  /\ \E n \in 1..PathMaxBeats, T \in 1..PathMaxFrames :
     \E mode \in PathModes, dur \in PathDurations :
       /\ beats = [i \in 1..n |-> PathBeat(i, mode, dur)]
       /\ total_frames = T
       /\ duration = Call("FDiv", <<Call("FInt", <<T>>), fps>>)

NextPath == BuildFrameParams \/ BuildBeatIndex

SpecPath == InitPath /\ [][NextPath]_vars

ParamsBuilt == pc \in {"build_beat_index", "open_writer"}

FAbs(x) == [x EXCEPT !.s = 1]

\* |x - y| <= |to - from| / 2^10
Within(x, y, from, to) ==
  \E gap \in {FAbs(FSub(to, from))} :
    FLe(FAbs(FSub(x, y)), [gap EXCEPT !.e = @ - 10])

\* the transition window of beat i (1-based): round(duration * fps) frames,
\* none for CUT, HOLD or a zero duration
WindowOf(i) ==
  IF beats[i].camera.transition \in {"CUT", "HOLD"}
       \/ beats[i].camera.duration = F0
  THEN 0
  ELSE PyRound(FMul(beats[i].camera.duration, fps))

\* the blend from + (to - from) * ease(l / w, mode)
BlendAt(from, to, l, w, mode) ==
  FAdd(from, FMul(FSub(to, from), EaseOf(FDiv(FInt(l), FInt(w)), mode)))

\* C7 as stated: in a two-beat timeline whose second beat has a named curve
\* and a window of at least two frames that fits in its slice, the zoom at
\* the window's first frame is beat 0's target and the zoom at the window's
\* last frame is beat 1's target, each to within a thousandth of their
\* distance.
C7_EndsAtTarget ==
  (/\ ParamsBuilt
   /\ Len(beats) = 2
   /\ beats[2].camera.transition \in NamedCurves) =>
    \E w \in {WindowOf(2)}, f_start \in {param_f_start(1, total_frames, 2)},
       f_end \in {param_f_end(1, total_frames, 2)} :
      (w >= 2 /\ f_start + w <= f_end) =>
        /\ Within(zooms[f_start], beats[1].camera.zoom,
                  beats[1].camera.zoom, beats[2].camera.zoom)
        /\ Within(zooms[f_start + w - 1], beats[2].camera.zoom,
                  beats[1].camera.zoom, beats[2].camera.zoom)

\* C7: in a two-beat timeline whose second beat has a named curve and a
\* window of w >= 1 frames that fits in its slice, the zoom at the window's
\* first frame is within a thousandth of the distance of beat 0's target,
\* the zoom at the window's last frame is the blend at progress (w - 1) / w,
\* and the first frame past the window, when the slice has one, is exactly
\* beat 1's target.
C7_WindowEnds ==
  (/\ ParamsBuilt
   /\ Len(beats) = 2
   /\ beats[2].camera.transition \in NamedCurves) =>
    \E w \in {WindowOf(2)}, f_start \in {param_f_start(1, total_frames, 2)},
       f_end \in {param_f_end(1, total_frames, 2)} :
      (w >= 1 /\ f_start + w <= f_end) =>
        /\ Within(zooms[f_start], beats[1].camera.zoom,
                  beats[1].camera.zoom, beats[2].camera.zoom)
        /\ zooms[f_start + w - 1] =
             BlendAt(beats[1].camera.zoom, beats[2].camera.zoom,
                     w - 1, w, beats[2].camera.transition)
        /\ f_start + w < f_end =>
             zooms[f_start + w] = beats[2].camera.zoom

\* two beats on 8 frames, a linear transition of 2 frames: frame 4 is at
\* beat 0's target, frame 5 is short of beat 1's, frame 6 is on it
C7_Witness ==
  /\ ParamsBuilt
  /\ Len(beats) = 2 /\ total_frames = 8
  /\ beats[2].camera.transition = "linear"
  /\ WindowOf(2) = 2
  /\ Within(zooms[4], beats[1].camera.zoom,
            beats[1].camera.zoom, beats[2].camera.zoom)
  /\ ~Within(zooms[5], beats[2].camera.zoom,
             beats[1].camera.zoom, beats[2].camera.zoom)
  /\ zooms[6] = beats[2].camera.zoom

\* C8: every frame of beat i's slice at or past the beat's transition
\* window holds exactly beat i's target zoom, focusX and focusY.
C8_TargetPastWindow ==
  ParamsBuilt =>
    \A i \in 1..Len(beats) :
      \E w \in {WindowOf(i)},
         f_start \in {param_f_start(i - 1, total_frames, Len(beats))},
         f_end \in {param_f_end(i - 1, total_frames, Len(beats))} :
        \A f \in f_start..(f_end - 1) :
          f - f_start >= w =>
            /\ zooms[f] = beats[i].camera.zoom
            /\ fxs[f] = beats[i].camera.focusX
            /\ fys[f] = beats[i].camera.focusY

\* three beats with a 1-frame ease-in window: frame 4 of beat 1 is past it
C8_Witness ==
  /\ ParamsBuilt
  /\ Len(beats) = 3 /\ total_frames = 8
  /\ beats[2].camera.transition = "ease-in"
  /\ WindowOf(2) = 1
  /\ param_f_start(1, 8, 3) = 3
  /\ zooms[3] # beats[2].camera.zoom
  /\ zooms[4] = beats[2].camera.zoom

\* C9: every frame of the first beat's slice holds exactly the first
\* beat's targets, whatever its transition and duration; a single-beat
\* timeline is held at its target on all total_frames frames.
C9_FirstBeatHeld ==
  ParamsBuilt =>
    \E f_end \in {param_f_end(0, total_frames, Len(beats))} :
      /\ Len(beats) = 1 => f_end = total_frames
      /\ \A f \in 0..(f_end - 1) :
           /\ zooms[f] = beats[1].camera.zoom
           /\ fxs[f] = beats[1].camera.focusX
           /\ fys[f] = beats[1].camera.focusY

\* one beat, transition "ease" with a 3-frame window, 8 frames
C9_Witness ==
  /\ ParamsBuilt
  /\ Len(beats) = 1 /\ total_frames = 8
  /\ beats[1].camera.transition = "ease"
  /\ WindowOf(1) = 3
  /\ \A f \in 0..7 : zooms[f] = beats[1].camera.zoom

(***************************************************************************)
(* The easing function on its own: ease(t, mode) at t = k / EaseSteps, from *)
(* one step below 0 to one step above 1, for every mode.                   *)
(***************************************************************************)
ApplyEase ==
  /\ pc = "ease"
  /\ ease_val' = Call("ease", <<ease_t, ease_mode>>)
  /\ pc' = "eased"
  /\ UNCHANGED <<timelineVars, srtVars, runVars, ease_t, ease_mode>>
  /\ UNCHANGED <<callVars, frameVars, ioVars>>
  /\ UNCHANGED <<optVars, peakVars>>

EaseSteps == 8

InitEase ==
  /\ pc = "ease"
  /\ NoTimeline /\ NoSrt /\ NoRun /\ NoCalls /\ NoFrame /\ NoIo /\ NoOpts /\ NoPeaks
  /\ ease_val = F0
  /\ \E k \in (-1)..(EaseSteps + 1), mode \in PathModes :
       /\ ease_t = Call("Dec", <<k, EaseSteps>>)
       /\ ease_mode = mode

NextEase == ApplyEase

SpecEase == InitEase /\ [][NextEase]_vars

Eased == pc = "eased"

\* C10 as stated: on the five named curves ease(0, mode) = 0 and
\* ease(1, mode) = 1.
C10_ExactEndpoints ==
  (Eased /\ ease_mode \in NamedCurves) =>
    /\ ease_t = F0 => ease_val = F0
    /\ ease_t = F1 => ease_val = F1

\* C10: on the five named curves ease(0, mode) lies in (0, 2^-18] and
\* ease(1, mode) lies in [1 - 2^-32, 1): the search ends half a step from
\* the endpoint, so neither value is exact.
C10_Endpoints ==
  (Eased /\ ease_mode \in NamedCurves) =>
    /\ ease_t = F0 =>
         /\ FLt(F0, ease_val)
         /\ FLe(ease_val, [F1 EXCEPT !.e = @ - 18])
    /\ ease_t = F1 =>
         /\ FLt(ease_val, F1)
         /\ FLe(FSub(F1, ease_val), [F1 EXCEPT !.e = @ - 32])

\* ease(0, "ease") has been computed and is above 2^-19
C10_Witness ==
  /\ Eased
  /\ ease_mode = "ease" /\ ease_t = F0
  /\ FLt([F1 EXCEPT !.e = @ - 19], ease_val)
  /\ FLe(ease_val, [F1 EXCEPT !.e = @ - 18])

\* C11: ease(t, mode) is exactly 1.0 for every t when mode is CUT, HOLD or
\* a name that is not a named curve; on a named curve a t below 0 gives
\* ease(0, mode) and a t above 1 gives ease(1, mode).
C11_SnapAndClamp ==
  Eased =>
    /\ ease_mode \notin NamedCurves => ease_val = F1
    /\ (ease_mode \in NamedCurves /\ FLt(ease_t, F0)) =>
         ease_val = Call("ease", <<F0, ease_mode>>)
    /\ (ease_mode \in NamedCurves /\ FLt(F1, ease_t)) =>
         ease_val = Call("ease", <<F1, ease_mode>>)

\* ease of a t above 1 under the unknown name "bounce"
C11_Witness ==
  /\ Eased
  /\ ease_mode = "bounce"
  /\ FLt(F1, ease_t)
  /\ ease_val = F1

(***************************************************************************)
(* The two build functions called again and again, in any order, on        *)
(* timelines the caller loads in between.  calls keeps, for each call, the *)
(* arguments, the result, and the beat list as the call left it.           *)
(***************************************************************************)
RepeatMaxBeats == 2
RepeatMaxFrames == 2
RepeatMaxCalls == 3

RepeatTimelines ==
  {[i \in 1..n |-> PathBeat(i, mode, FHalf)] :
     n \in RepeatMaxBeats..RepeatMaxBeats, mode \in {"CUT", "linear"}}

\* the caller binds beats and total_frames to another timeline
LoadTimeline ==
  /\ pc = "repeat"
  /\ \E bs \in RepeatTimelines, T \in 1..RepeatMaxFrames :
       /\ <<bs, T>> # <<beats, total_frames>>
       /\ beats' = bs
       /\ total_frames' = T
  /\ UNCHANGED <<pc, fps, duration, zooms, fxs, fys, beat_idx>>
  /\ UNCHANGED <<srtVars, runVars, easeVars, callVars, frameVars, ioVars>>
  /\ UNCHANGED <<optVars, peakVars>>

\* zooms, fxs, fys = build_frame_params(beats, total_frames, fps, duration)
RepeatFrameParams ==
  /\ pc = "repeat"
  /\ Len(calls) < RepeatMaxCalls
  /\ UNCHANGED <<pc, beats, total_frames, fps, duration, beat_idx>>
  /\ LET r == Call("build_frame_params", <<beats, total_frames, fps, duration>>)
     IN  /\ zooms' = r.zooms
         /\ fxs' = r.fxs
         /\ fys' = r.fys
         /\ calls' = Append(calls,
              [fn |-> "build_frame_params", beats |-> beats,
               total_frames |-> total_frames, fps |-> fps,
               result |-> <<r.zooms, r.fxs, r.fys>>, beats_after |-> beats'])
  /\ UNCHANGED <<srtVars, runVars, easeVars, frameVars, ioVars>>
  /\ UNCHANGED <<optVars, peakVars>>

\* a call whose index entries have the number of earlier calls added in
RepeatBeatIndexCounting ==
  /\ pc = "repeat"
  /\ Len(calls) < RepeatMaxCalls
  /\ UNCHANGED <<pc, beats, total_frames, fps, duration, zooms, fxs, fys>>
  /\ LET r == Call("build_beat_index", <<beats, total_frames>>)
         c == [f \in DOMAIN r |-> r[f] + Len(calls)]
     IN  /\ beat_idx' = c
         /\ calls' = Append(calls,
              [fn |-> "build_beat_index", beats |-> beats,
               total_frames |-> total_frames, fps |-> fps,
               result |-> <<c>>, beats_after |-> beats'])
  /\ UNCHANGED <<srtVars, runVars, easeVars, frameVars, ioVars>>
  /\ UNCHANGED <<optVars, peakVars>>

\* beat_idx = build_beat_index(beats, total_frames)
RepeatBeatIndex ==
  /\ pc = "repeat"
  /\ Len(calls) < RepeatMaxCalls
  /\ UNCHANGED <<pc, beats, total_frames, fps, duration, zooms, fxs, fys>>
  /\ LET r == Call("build_beat_index", <<beats, total_frames>>)
     IN  /\ beat_idx' = r
         /\ calls' = Append(calls,
              [fn |-> "build_beat_index", beats |-> beats,
               total_frames |-> total_frames, fps |-> fps,
               result |-> <<r>>, beats_after |-> beats'])
  /\ UNCHANGED <<srtVars, runVars, easeVars, frameVars, ioVars>>
  /\ UNCHANGED <<optVars, peakVars>>

InitRepeat ==
  /\ pc = "repeat"
  /\ NoSrt /\ NoRun /\ NoEase /\ NoCalls /\ NoFrame /\ NoIo /\ NoOpts /\ NoPeaks
  /\ fps = F2 /\ duration = F1
  /\ zooms = NoArray /\ fxs = NoArray /\ fys = NoArray /\ beat_idx = NoArray
  /\ beats \in RepeatTimelines
  /\ total_frames \in 1..RepeatMaxFrames

NextRepeat == LoadTimeline \/ RepeatFrameParams \/ RepeatBeatIndex

SpecRepeat == InitRepeat /\ [][NextRepeat]_vars

ApplyTransform ==
  /\ pc = "apply_transform"
  /\ crop' = [args   |-> crop.args,
              result |-> Call("apply_transform", crop.args)]
  /\ pc' = "transformed"
  /\ UNCHANGED <<timelineVars, srtVars, runVars, easeVars, callVars, bar,
                 ioVars>>
  /\ UNCHANGED <<optVars, peakVars>>

CropMaxW == 5
CropMaxH == 3

CropZooms == {FHalf, F1, FQuarters(1), FOneAndHalf, F2, F3}

InitCrop ==
  /\ pc = "apply_transform"
  /\ NoTimeline /\ NoSrt /\ NoRun /\ NoEase /\ NoCalls /\ NoIo /\ NoOpts /\ NoPeaks
  /\ bar = <<>>
  /\ \E w \in 1..CropMaxW, h \in 1..CropMaxH, zoom \in CropZooms,
        kx \in 0..4, ky \in {0, 2, 4} :
       crop = [args |-> <<w, h, zoom, FPercent(kx), FPercent(ky)>>]

NextCrop == ApplyTransform

SpecCrop == InitCrop /\ [][NextCrop]_vars

Transformed == pc = "transformed"

\* C13: for every frame size, zoom > 0 and focus in 0..100 the crop
\* rectangle lies inside the frame: 0 <= x1, x1 + crop_w <= W, 0 <= y1,
\* y1 + crop_h <= H.
C13_CropInside ==
  Transformed =>
    \E w \in {crop.args[1]}, h \in {crop.args[2]}, r \in {crop.result} :
      /\ 0 <= r.x1 /\ r.x1 + r.crop_w <= w
      /\ 0 <= r.y1 /\ r.y1 + r.crop_h <= h

\* a 4 x 2 frame at zoom 0.5: the crop is 8 x 4 at the origin
C13_Witness ==
  /\ Transformed
  /\ crop.args[1] = 4 /\ crop.args[2] = 2 /\ crop.args[3] = FHalf
  /\ crop.result.crop_w = 8 /\ crop.result.crop_h = 4
  /\ crop.result.x1 = 0 /\ crop.result.y1 = 0

\* C14: at zoom 1 with the focus at 50%, 50% the crop has origin (0, 0) and
\* the size of the frame, for odd and even sizes alike.
C14_IdentityCrop ==
  (/\ Transformed
   /\ crop.args[3] = F1
   /\ crop.args[4] = FPercent(2) /\ crop.args[5] = FPercent(2)) =>
    /\ crop.result.x1 = 0 /\ crop.result.y1 = 0
    /\ crop.result.crop_w = crop.args[1]
    /\ crop.result.crop_h = crop.args[2]
    /\ ~crop.result.raises

\* a 3 x 3 frame: the centre rounds to 2, the origin is clamped back to 0
C14_Witness ==
  /\ Transformed
  /\ crop.args = <<3, 3, F1, FPercent(2), FPercent(2)>>
  /\ crop.result.x1 = 0 /\ crop.result.y1 = 0
  /\ crop.result.crop_w = 3 /\ crop.result.crop_h = 3

(***************************************************************************)
(* draw_subtitle on its own: frame heights up to the bound, and the text    *)
(* heights and baselines cv2.getTextSize may measure, up to the bounds.    *)
(***************************************************************************)
DrawSubtitle ==
  /\ pc = "draw_subtitle"
  /\ bar' = [args |-> bar.args, result |-> Call("draw_subtitle", bar.args)]
  /\ pc' = "drawn"
  /\ UNCHANGED <<timelineVars, srtVars, runVars, easeVars, callVars, crop,
                 ioVars>>
  /\ UNCHANGED <<optVars, peakVars>>

BarMaxH == 48
BarMaxText == 5
BarMaxBaseline == 2

BarBeat(silent) == [id |-> "1a", script |-> IF silent THEN Silent ELSE Spoken]

InitBar ==
  /\ pc = "draw_subtitle"
  /\ NoTimeline /\ NoSrt /\ NoRun /\ NoEase /\ NoCalls /\ NoIo /\ NoOpts /\ NoPeaks
  /\ crop = <<>>
  /\ \E silent \in BOOLEAN, h \in 1..BarMaxH, th \in 0..BarMaxText,
        baseline \in 0..BarMaxBaseline :
       bar = [args |-> <<BarBeat(silent), h, th, baseline>>]

NextBar == DrawSubtitle

SpecBar == InitBar /\ [][NextBar]_vars

\* C15: for every frame height h and every measured text height the bar
\* stays inside the frame: 0 <= bar_y and bar_y + bar_h <= h, with
\* bar_h = text height + baseline + 2 * 16.
C15_BarInside ==
  (pc = "drawn" /\ bar.result.drawn) =>
    /\ bar.result.bar_h = bar.args[3] + bar.args[4] + 2 * 16
    /\ 0 <= bar.result.bar_y
    /\ bar.result.bar_y + bar.result.bar_h <= bar.args[2]

\* a frame 30 rows high and a text 4 rows high with baseline 2: the bar
\* is 38 rows high and starts at row 0
C15_Witness ==
  /\ pc = "drawn" /\ bar.result.drawn
  /\ bar.args[2] = 30 /\ bar.args[3] = 4 /\ bar.args[4] = 2
  /\ bar.result.bar_h = 38
  /\ bar.result.bar_y = 0

(***************************************************************************)
(* main() from the opening of the capture to the end of the run, on        *)
(* two-beat CUT timelines whose second beat is valid, has zoom 0 or -1, or  *)
(* has focusX = 150.                                                       *)
(***************************************************************************)
MainMaxFrames == 3
MainMaxSrc == 2

MainBeat(zoom, fx) ==
  [id     |-> "1a",
   camera |-> [zoom |-> zoom, focusX |-> fx, focusY |-> FPercent(2),
               transition |-> "CUT", duration |-> F0],
   script |-> Spoken]

\* 150.0
FOutOfRange == [FPercent(3) EXCEPT !.e = @ + 1]

MainTimelines ==
  {<<MainBeat(F1, FPercent(2)), MainBeat(c[1], c[2])>> :
     c \in {<<F2, FPercent(2)>>, <<F0, FPercent(2)>>,
            <<FNeg(F1), FPercent(2)>>, <<F2, FOutOfRange>>}}

\* --duration 2 .. MainMaxFrames, and 30.0: the option omitted or given as 30
MainDurations ==
  {Call("FInt", <<T>>) : T \in 2..MainMaxFrames} \cup {DefaultDuration}

InitMain ==
  /\ pc = "open_capture"
  /\ NoEase /\ NoCalls /\ NoFrame /\ NoPeaks
  /\ srt = <<>>
  /\ opt_srt \in BOOLEAN
  /\ opened \in BOOLEAN
  /\ files = {} /\ avi_size = -1 /\ has_audio = FALSE
  /\ probes = 0 /\ encodes = 0 /\ returncode = 0 /\ out_size = 0
  /\ status = "running"
  /\ total_frames = 0 /\ fps = F1 /\ duration = F0
  /\ zooms = NoArray /\ fxs = NoArray /\ fys = NoArray /\ beat_idx = NoArray
  /\ cap_pos = 0 /\ fi = 0 /\ reads = <<>> /\ written = 0
  /\ frame_w = 4 /\ frame_h = 2
  /\ beats \in MainTimelines
  /\ src_total \in 0..MainMaxSrc
  /\ opt_duration \in MainDurations
  /\ opt_fps \in {NoFps, F1}
  /\ src_fps = F1

NextMain ==
  \/ OpenCapture
  \/ OpenFails
  \/ WriteSrt
  \/ SkipSrt
  \/ BuildFrameParams
  \/ BuildBeatIndex
  \/ OpenWriter
  \/ RenderFrame
  \/ RenderBreak
  \/ RenderCrash
  \/ SourceLost
  \/ LoopDone
  \/ AviTooSmall
  \/ AviPlausible
  \/ ProbeAudio
  \/ Encode

SpecMain == InitMain /\ [][NextMain]_vars

\* a beat with zoom <= 0 or a focus outside 0..100
InvalidBeat(beat) ==
  \/ FLe(beat.camera.zoom, F0)
  \/ FLt(beat.camera.focusX, F0) \/ FLt(FPercent(4), beat.camera.focusX)
  \/ FLt(beat.camera.focusY, F0) \/ FLt(FPercent(4), beat.camera.focusY)

HasInvalidBeat == \E i \in 1..Len(beats) : InvalidBeat(beats[i])

\* C16: with an invalid beat in the list the run fails at compile time: no
\* source frame is ever read, no frame is ever written, and the run does
\* not end well.
C16_RejectedAtCompile ==
  HasInvalidBeat =>
    /\ cap_pos = 0 /\ reads = <<>> /\ written = 0
    /\ status # "done"

\* the second beat has zoom 0: the first beat's frame is written, then the
\* run dies in apply_transform on the second beat's first frame
C16_Witness ==
  /\ HasInvalidBeat
  /\ beats[2].camera.zoom = F0
  /\ status = "crashed"
  /\ written >= 1
  /\ "avi" \in files

\* C17: when the capture cannot be opened the run ends at once in the error
\* state, with no subtitle file, no intermediate file, no output, no probe
\* and no encoder run.
C17_OpenFailure ==
  ~opened =>
    /\ pc \in {"open_capture", "exit"}
    /\ pc = "exit" => status = "error"
    /\ files = {}
    /\ probes = 0 /\ encodes = 0

\* --srt given, the capture does not open
C17_Witness ==
  /\ ~opened /\ opt_srt
  /\ pc = "exit" /\ status = "error"
  /\ files = {}

\* the loop was left by break: a read failed also after the rewind
Broke ==
  /\ pc \in {"release", "probe", "encode", "exit"}
  /\ fi < total_frames
  /\ status # "crashed"
  /\ "avi" \in files \/ avi_size >= 0

\* C18: when the read after the rewind fails too, the run ends in the error
\* state: neither the probe nor the encoder runs on the frames written.
C18_BreakIsFatal ==
  Broke =>
    /\ probes = 0 /\ encodes = 0
    /\ pc = "exit" => status = "error"

\* the source is lost after a frame was written; the run ends well with the
\* encoder run on that frame
C18_Witness ==
  /\ Broke
  /\ written >= 1
  /\ encodes = 1
  /\ pc = "exit" /\ status = "done"

\* C19: an intermediate file under 1000 bytes ends the run in the error
\* state, with the file removed and neither the probe nor the encoder run.
C19_SmallAvi ==
  avi_size \in 0..999 =>
    /\ pc = "exit" /\ status = "error"
    /\ "avi" \notin files
    /\ probes = 0 /\ encodes = 0

\* frames were written and the file has 999 bytes
C19_Witness ==
  /\ avi_size = 999
  /\ written >= 1
  /\ pc = "exit" /\ status = "error"
  /\ "avi" \notin files

\* C20: the encoder runs at most once; when it has run the run is over, the
\* intermediate file is gone, and a non-zero exit or a missing or empty
\* output has put the run in the error state.
C20_EncodeOnce ==
  /\ encodes <= 1
  /\ encodes = 1 =>
       /\ pc = "exit"
       /\ "avi" \notin files
       /\ (returncode # 0 \/ "out" \notin files \/ out_size = 0) =>
            status = "error"

\* the encoder exited 0 and left an empty output
C20_Witness ==
  /\ encodes = 1
  /\ returncode = 0 /\ "out" \in files /\ out_size = 0
  /\ pc = "exit" /\ status = "error"
  /\ "avi" \notin files

\* C21: when the run fails at the encode step, neither the intermediate
\* file nor a file at the output path exists when the run ends.
C21_NoPartialOutput ==
  (encodes = 1 /\ pc = "exit" /\ status = "error") =>
    /\ "avi" \notin files
    /\ "out" \notin files

\* the encoder exited 1 and left a partly written output behind
C21_Witness ==
  /\ encodes = 1 /\ pc = "exit" /\ status = "error"
  /\ returncode = 1
  /\ "out" \in files /\ out_size = 1
  /\ "avi" \notin files

\* the options have been resolved against the opened source
TimingResolved == pc # "open_capture" /\ opened

\* C22: the run's duration is the value of --duration (30.0 when the option
\* is omitted) and total_frames is round(that value * fps), whatever the
\* length of the source.
C22_DurationIsOption ==
  TimingResolved =>
    /\ duration = opt_duration
    /\ total_frames = Call("run_total_frames", <<opt_duration, fps>>)

\* a run with --duration at 30.0 over a source of 2 frames at 1 fps finished
\* after writing 2 frames
C22_Witness ==
  /\ pc = "exit" /\ status = "done"
  /\ opt_duration = DefaultDuration
  /\ src_total = 2 /\ src_fps = F1
  /\ duration = F2
  /\ total_frames = 2 /\ written = 2

(***************************************************************************)
(* The two subtitle consumers on one beat list: write_srt once, and the    *)
(* render loop's draw_subtitle call on a frame of any of the beats.        *)
(***************************************************************************)
CaptionMaxBeats == 3

\* the caption of beat i: spoken, a stage direction, a bracket after a
\* leading space, a lone bracket, the empty string
CaptionScript(i, kind) ==
  CASE kind = "spoken"  -> <<"H", DigitChar(i)>>
    [] kind = "silent"  -> <<"[", DigitChar(i), "]">>
    [] kind = "spaced"  -> <<" ", "[", DigitChar(i)>>
    [] kind = "bracket" -> <<"[">>
    [] kind = "empty"   -> <<>>

CaptionKinds == {"spoken", "silent", "spaced", "bracket", "empty", "bare"}

\* a beat of the given kind; "bare" is a beat without the script key
CaptionBeat(i, kind) ==
  IF kind = "bare" THEN [id |-> "1a", ordinal |-> i]
  ELSE [id |-> "1a", ordinal |-> i, script |-> CaptionScript(i, kind)]

\* the beat lists: at most one beat whose caption text is empty, so that a
\* caption's text tells which beat it belongs to
CaptionTimelines ==
  UNION {{[i \in 1..n |-> CaptionBeat(i, k[i])] :
            k \in {c \in [1..n -> CaptionKinds] :
                     Cardinality({i \in 1..n : c[i] \in {"empty", "bare"}}) <= 1}} :
         n \in 1..CaptionMaxBeats}

\* frame = draw_subtitle(frame, beats[beat_idx[fi]], ...) on a frame of
\* beat bi
SubtitleFrame ==
  /\ pc = "build_frame_params"
  /\ \E bi \in 0..Len(beats) - 1 :
       LET args == <<beats[bi + 1], BarMaxH, BarMaxText, BarMaxBaseline>>
       IN  bar' = [beat |-> bi, args |-> args,
                   result |-> Call("draw_subtitle", args)]
  /\ UNCHANGED <<pc, timelineVars, srtVars, runVars, easeVars, callVars, crop,
                 ioVars>>
  /\ UNCHANGED <<optVars, peakVars>>

InitCaption ==
  /\ pc = "write_srt"
  /\ NoRun /\ NoEase /\ NoCalls /\ NoFrame /\ NoIo /\ NoOpts /\ NoPeaks
  /\ srt = <<>> /\ opt_srt = TRUE
  /\ total_frames = 3 /\ fps = F1 /\ duration = F3
  /\ zooms = NoArray /\ fxs = NoArray /\ fys = NoArray /\ beat_idx = NoArray
  /\ beats \in CaptionTimelines

NextCaption == WriteSrt \/ SubtitleFrame

SpecCaption == InitCaption /\ [][NextCaption]_vars

\* both consumers have acted: the file is written and a frame was captioned
BothConsumed == "srt" \in files /\ bar # <<>>

\* the file holds an entry whose text line is the caption of beat bi
HasEntry(bi) ==
  \E k \in 0..((Len(srt) + 1) \div 4) - 1 :
    srt[4 * k + 3] = (IF "script" \in DOMAIN beats[bi + 1]
                      THEN beats[bi + 1].script ELSE <<>>)

\* C23: for every beat, draw_subtitle leaves the frame as it is exactly
\* when write_srt emits no entry for the beat, and both do so exactly when
\* the script starts with "["; a beat without a script is captioned (with
\* the empty text) by both.
C23_ConsumersAgree ==
  BothConsumed =>
    /\ ~bar.result.drawn <=> ~HasEntry(bar.beat)
    /\ ~bar.result.drawn <=> SilentBeat(beats[bar.beat + 1])

\* a list with a stage direction and a beat without a script: the first
\* has no bar and no entry, the second has both
C23_Witness ==
  /\ BothConsumed
  /\ Len(beats) = 3
  /\ SilentBeat(beats[1]) /\ "script" \notin DOMAIN beats[2]
  /\ bar.beat = 1 /\ bar.result.drawn /\ HasEntry(1) /\ ~HasEntry(0)

\* the frames beat_idx gives to beat bi
FramesOf(bi) == {f \in DOMAIN beat_idx : beat_idx[f] = bi}

\* the frames whose camera values build_frame_params took from beat bi
\* (the beats of these lists differ in zoom)
ParamFramesOf(bi) == {f \in DOMAIN zooms : zooms[f] = beats[bi + 1].camera.zoom}

\* C24: with n >= 1 beats and total_frames >= n every beat owns at least
\* one frame: each slice of build_beat_index and of build_frame_params is
\* non-empty under round-half-to-even, and every beat index 0..n-1 occurs
\* in beat_idx.
C24_EveryBeatOwnsFrame ==
  (IndexBuilt /\ Len(beats) >= 1 /\ total_frames >= Len(beats)) =>
    \A bi \in 0..(Len(beats) - 1) :
      /\ FramesOf(bi) # {}
      /\ index_f_start(bi, total_frames, Len(beats))
           < index_f_end(bi, total_frames, Len(beats))
      /\ ParamFramesOf(bi) # {}

\* four beats on six frames: the boundaries 1.5 and 4.5 round to 2 and 4,
\* and the two middle beats own exactly one frame each
C24_Witness ==
  /\ IndexBuilt
  /\ Len(beats) = 4 /\ total_frames = 6
  /\ FramesOf(0) = {0, 1} /\ FramesOf(1) = {2}
  /\ FramesOf(2) = {3} /\ FramesOf(3) = {4, 5}
  /\ ParamFramesOf(1) = {2} /\ ParamFramesOf(2) = {3}

(***************************************************************************)
(* build_frame_params on beats whose transition is CUT or a name that is   *)
(* not in BEZIERS, with camera values that are, or are not, sums of few    *)
(* powers of two.                                                          *)
(***************************************************************************)
BlendMaxBeats == 3
BlendMaxFrames == 8

UnknownModes == {"bounce", "Linear", "ease_in"}
BlendModes == UnknownModes \cup {"CUT"}
BlendDurations == {F0, FHalf, F1, FOneAndHalf}

\* 12.3 and 0.3
FocusOffCentre == Call("Dec", <<123, 10>>)
FocusEdge == Call("Dec", <<3, 10>>)

\* beat i: the focus alternates between the centre and (12.3, 0.3) when
\* the values are decimal, and is FEights otherwise
BlendBeat(i, mode, dur, decimal) ==
  [id     |-> "1a",
   camera |-> [zoom |-> FQuarters(i),
               focusX |-> IF ~decimal THEN FEights(i)
                          ELSE IF i % 2 = 1 THEN FPercent(2) ELSE FocusOffCentre,
               focusY |-> IF ~decimal THEN FEights(4 - i)
                          ELSE IF i % 2 = 1 THEN FPercent(2) ELSE FocusEdge,
               transition |-> mode, duration |-> dur],
   script |-> Spoken]

InitBlend ==
  /\ pc = "build_frame_params"
  /\ NoSrt /\ NoRun /\ NoEase /\ NoCalls /\ NoFrame /\ NoIo /\ NoOpts /\ NoPeaks
  /\ fps = F2
  /\ zooms = NoArray /\ fxs = NoArray /\ fys = NoArray /\ beat_idx = NoArray
  /\ \E n \in 1..BlendMaxBeats, T \in 1..BlendMaxFrames :
     \E mode \in BlendModes, dur \in BlendDurations, decimal \in BOOLEAN :
       /\ beats = [i \in 1..n |-> BlendBeat(i, mode, dur, decimal)]
       /\ total_frames = T
       /\ duration = Call("FDiv", <<Call("FInt", <<T>>), fps>>)

NextBlend == BuildFrameParams \/ BuildBeatIndex

SpecBlend == InitBlend /\ [][NextBlend]_vars

\* beat i (1-based) has a name outside BEZIERS, CUT and HOLD, and a nonzero
\* duration
UnknownTransition(i) ==
  /\ beats[i].camera.transition \notin NamedCurves \cup {"CUT", "HOLD"}
  /\ beats[i].camera.duration # F0

\* the frames of beat i's parameter slice
SliceOf(i) ==
  {f \in 0..(total_frames - 1) :
     /\ param_f_start(i - 1, total_frames, Len(beats)) <= f
     /\ f < param_f_end(i - 1, total_frames, Len(beats))}

\* the camera beat i starts from: its own for the first beat
FromOf(i) == IF i = 1 THEN beats[1].camera ELSE beats[i - 1].camera

\* |x - to| <= |to - from| / 2^51
Near(x, from, to) ==
  \E gap \in {FAbs(FSub(to, from))} :
    FLe(FAbs(FSub(x, to)), [gap EXCEPT !.e = @ - 51])

\* C25 as stated: a beat with a name outside BEZIERS, CUT and HOLD and a
\* nonzero duration gets the values it would get with CUT: every frame of
\* its slice holds exactly the beat's target zoom, focusX and focusY.
C25_UnknownIsCut ==
  ParamsBuilt =>
    \A i \in 1..Len(beats) :
      UnknownTransition(i) =>
        \A f \in SliceOf(i) :
          /\ zooms[f] = beats[i].camera.zoom
          /\ fxs[f] = beats[i].camera.focusX
          /\ fys[f] = beats[i].camera.focusY

\* the value of a frame inside the window: from + (to - from) * 1.0
SnapBlend(v, from, to) == v = FAdd(from, FMul(FSub(to, from), F1)) /\ Near(v, from, to)

\* C25: such a beat gets, at the frames of its slice inside its window of
\* round(duration * fps) frames, from + (to - from) * 1.0 as binary64
\* computes it, which is within |to - from| / 2^51 of the target, and at
\* the frames at or past the window exactly the target.
C25_UnknownNearCut ==
  ParamsBuilt =>
    \A i \in 1..Len(beats) :
      UnknownTransition(i) =>
        \A f \in SliceOf(i) :
          IF f - param_f_start(i - 1, total_frames, Len(beats)) < WindowOf(i)
          THEN /\ SnapBlend(zooms[f], FromOf(i).zoom, beats[i].camera.zoom)
               /\ SnapBlend(fxs[f], FromOf(i).focusX, beats[i].camera.focusX)
               /\ SnapBlend(fys[f], FromOf(i).focusY, beats[i].camera.focusY)
          ELSE /\ zooms[f] = beats[i].camera.zoom
               /\ fxs[f] = beats[i].camera.focusX
               /\ fys[f] = beats[i].camera.focusY

\* two beats on 8 frames, the second "bounce" for 1 s at 2 fps, focusX from
\* 50.0 to 12.3: frames 4 and 5 miss 12.3, frame 6 is on it
C25_Witness ==
  /\ ParamsBuilt
  /\ Len(beats) = 2 /\ total_frames = 8
  /\ beats[2].camera.transition = "bounce"
  /\ WindowOf(2) = 2
  /\ beats[1].camera.focusX = FPercent(2)
  /\ beats[2].camera.focusX = FocusOffCentre
  /\ fxs[4] # FocusOffCentre /\ fxs[5] # FocusOffCentre
  /\ FLt(fxs[4], FocusOffCentre)
  /\ fxs[6] = FocusOffCentre
  /\ zooms[4] = beats[2].camera.zoom

(***************************************************************************)
(* scripts/detect_regions.py: _local_maxima_2d(result_map, threshold,      *)
(* min_dist_px).  The map is a record [h, w, cells] with cells[<<y, x>>]   *)
(* the correlation at row y, column x.  The loop only compares and         *)
(* overwrites values, so the values and thresholds of the model are the    *)
(* whole numbers among the floats.                                         *)
(***************************************************************************)
\* result_map[y1:y2, x1:x2] = -1
Suppressed == -1

\* the positions of the map
Cells(m) == (0..(m.h - 1)) \X (0..(m.w - 1))

\* max_val of cv2.minMaxLoc
max_val_of(m) == CHOOSE v \in {m.cells[c] : c \in Cells(m)} :
                   \A c \in Cells(m) : m.cells[c] <= v

\* max_loc of cv2.minMaxLoc: the first position, rows scanned from the top
\* and each row from the left, where the map has its maximum
max_loc_of(m) ==
  CHOOSE c \in Cells(m) :
    /\ m.cells[c] = max_val_of(m)
    /\ \A d \in Cells(m) :
         m.cells[d] = max_val_of(m) =>
           (c[1] < d[1] \/ (c[1] = d[1] /\ c[2] <= d[2]))

\* the neighbourhood of (x, y), cut at the map's edges, set to -1
suppress(m, y, x, dist) ==
  LET y1 == Max(0, y - dist)
      y2 == Min(m.h, y + dist + 1)
      x1 == Max(0, x - dist)
      x2 == Min(m.w, x + dist + 1)
  IN  [m EXCEPT !.cells =
         [c \in Cells(m) |->
            IF y1 <= c[1] /\ c[1] < y2 /\ x1 <= c[2] /\ c[2] < x2
            THEN Suppressed ELSE m.cells[c]]]

PeakMaxW == 3
PeakMaxH == 2
PeakMaxDist == 3
PeakMaxThreshold == 2
\* the longest peak list kept: more peaks than the largest map has cells
PeakMaxPeaks == PeakMaxW * PeakMaxH + 2

\* peaks.append((x, y)); of a list that has reached PeakMaxPeaks entries
\* only these first entries are kept
append_peak(ps, x, y) ==
  IF Len(ps) < PeakMaxPeaks THEN Append(ps, <<x, y>>) ELSE ps

\* the top of "while True": the maximum is not below the threshold
PeakFound ==
  /\ pc = "peaks_loop"
  /\ ~(max_val_of(result_map) < threshold)
  /\ pc' = "peaks_suppress"
  /\ UNCHANGED <<timelineVars, srtVars, runVars, easeVars, callVars,
                 frameVars, ioVars, optVars, peakVars>>

\* the rest of the pass: the peak is recorded and its neighbourhood
\* suppressed, and the loop starts over
SuppressPeak ==
  /\ pc = "peaks_suppress"
  /\ \E loc \in {max_loc_of(result_map)} :
       /\ peaks' = append_peak(peaks, loc[2], loc[1])
       /\ result_map' = suppress(result_map, loc[1], loc[2], min_dist_px)
  /\ pc' = "peaks_loop"
  /\ UNCHANGED <<threshold, min_dist_px>>
  /\ UNCHANGED <<timelineVars, srtVars, runVars, easeVars, callVars,
                 frameVars, ioVars, optVars>>

\* if max_val < threshold: break; return peaks
PeaksDone ==
  /\ pc = "peaks_loop"
  /\ max_val_of(result_map) < threshold
  /\ pc' = "peaks_done"
  /\ UNCHANGED <<timelineVars, srtVars, runVars, easeVars, callVars,
                 frameVars, ioVars, optVars, peakVars>>

\* the values cv2.matchTemplate(..., TM_CCOEFF_NORMED) gives: -1, 0, 1
Correlations == {-1, 0, 1}

InitPeaks ==
  /\ pc = "peaks_loop"
  /\ NoTimeline /\ NoSrt /\ NoRun /\ NoEase /\ NoCalls /\ NoFrame /\ NoIo
  /\ NoOpts
  /\ peaks = <<>>
  /\ threshold \in (-PeakMaxThreshold)..PeakMaxThreshold
  /\ min_dist_px \in 2..PeakMaxDist
  /\ \E h \in 1..PeakMaxH, w \in 1..PeakMaxW :
       result_map \in [h : {h}, w : {w},
                       cells : [(0..(h - 1)) \X (0..(w - 1)) -> Correlations]]

NextPeaks == PeakFound \/ SuppressPeak \/ PeaksDone

SpecPeaks == InitPeaks /\ [][NextPeaks]_vars

\* the loop keeps running: each pass is taken as long as it can be
SpecPeaksFair == SpecPeaks /\ WF_vars(NextPeaks)

\* C26: for every correlation map and every threshold the loop ends: the
\* map's maximum falls below the threshold after finitely many passes.
C26_Terminates == <>(pc = "peaks_done")

\* threshold -1 on a map whose cells are all suppressed: the loop has found
\* more peaks than the map has cells and its test has sent it into another
\* pass
C26_Witness ==
  /\ pc = "peaks_suppress"
  /\ threshold = -1
  /\ \A c \in Cells(result_map) : result_map.cells[c] = Suppressed
  /\ Len(peaks) > result_map.h * result_map.w
  /\ ~(max_val_of(result_map) < threshold)

====
